---- MODULE Spec2Model ----
(***************************************************************************)
(* Attendance dashboard (client script): the in-memory absence and off-day *)
(* stores, the toggle mutation, the calendar-cell classification and the   *)
(* monthly / cumulative statistics that are derived from the stores.       *)
(*                                                                         *)
(* A Date is a record [year, month, date] with a zero-based month, as the  *)
(* getters of a JavaScript Date report it.  Every comparison of the script *)
(* is between a midnight Date and either another midnight Date or "now",   *)
(* so it is decided by the calendar day alone: DateValue is the day count. *)
(* The markup written to innerHTML is output recomputed from the globals;  *)
(* it is modelled by the operators renderedCells and renderedSummary and   *)
(* is not part of the state.  The statistics loops are modelled by the set *)
(* of days each counter is incremented for; a total is its cardinality.    *)
(*                                                                         *)
(* Several specifications share the definitions.  Spec: the calls of the   *)
(* global toggleDayStatus and the clock.  UiSpec: one page visit, with the *)
(* displayed month of each class, the click handlers that the markup of    *)
(* each detail carries, and the toggles resumed after their save.          *)
(* HolidaySpec: a page visit that loads a document with an off day.        *)
(* SessionsSpec: the edit sessions, their requests in flight and the       *)
(* persisted document.  ServerSpec: the routes of the server, the session  *)
(* of one browser and the calls of the registration handler.               *)
(***************************************************************************)
EXTENDS Integers, Sequences, FiniteSets, TLC

VARIABLES attendanceData, offDaysData, today

\* the page: classState, the markup of the detail of each class, the calls of
\* toggleDayStatus waiting at their await, and whether the load handler has run
VARIABLES classState, dom, resumes, loaded

\* the edit sessions, the requests and responses in flight, the persisted document
VARIABLES sessions, network, document

\* the server: the users collection, whether the session of the browser holds a
\* logged-in user, the calls of POST /api/register, and the exchanges of the
\* last request of the browser
VARIABLES users, authenticated, registrations, served

coreVars == <<attendanceData, offDaysData, today>>

uiVars == <<classState, dom, resumes, loaded>>

netVars == <<sessions, network, document>>

serverVars == <<users, authenticated, registrations, served>>

vars == <<attendanceData, offDaysData, today, classState, dom, resumes, loaded,
          sessions, network, document, users, authenticated, registrations, served>>

(* ------------------------------ bounds -------------------------------- *)

\* at most this many marked days in the two stores together
MaxMarks == 2

\* at most this many "YYYY-MM" entries in the two stores together
MaxEntries == 2

(* ----------------------------- JS Date -------------------------------- *)

IsLeapYear(year) == (year % 4 = 0 /\ year % 100 # 0) \/ year % 400 = 0

\* new Date(year, month + 1, 0).getDate()
DaysInMonth(year, month) ==
    CASE month \in {0, 2, 4, 6, 7, 9, 11} -> 31
      [] month \in {3, 5, 8, 10} -> 30
      [] OTHER -> IF IsLeapYear(year) THEN 29 ELSE 28

\* the days of the year before the first of the month
DaysBeforeMonth(year, month) ==
    <<0, 31, 59, 90, 120, 151, 181, 212, 243, 273, 304, 334>>[month + 1]
    + (IF month > 1 /\ IsLeapYear(year) THEN 1 ELSE 0)

DaysBeforeYear(year) ==
    LET y == year - 1 IN 365 * y + (y \div 4) - (y \div 100) + (y \div 400)

\* new Date(year, month, date), date within the month: the time value in whole
\* days (day 1 is Monday, January 1 of year 1) and what the getters report
NewDate(year, month, date) ==
    [year |-> year, month |-> month, date |-> date,
     time |-> DaysBeforeYear(year) + DaysBeforeMonth(year, month) + date]

\* the value two Dates are compared by
DateValue(d) == d.time

\* Date.prototype.getDay(): 0 is Sunday .. 6 is Saturday
GetDay(d) == d.time % 7

(* ---------------------------- constants ------------------------------- *)

semesterStart == NewDate(2025, 6, 27)
semesterEnd == NewDate(2025, 10, 22)

ClassIds == {"cs301", "cs302"}

\* the values new Date() takes at the calls of one or several page visits
TodayDates ==
    { NewDate(2025, 5, 30), NewDate(2025, 6, 10), NewDate(2025, 6, 28),
      NewDate(2025, 7, 15), NewDate(2025, 10, 22), NewDate(2025, 11, 5), NewDate(2026, 7, 15) }

\* the dates toggleDayStatus is called with
ToggleDates == { NewDate(2025, 6, 28), NewDate(2025, 7, 16) }

ToggleTypes == {"absent", "off"}

\* the (year, month) arguments the statistics and the calendar are evaluated at
StatMonths ==
    {<<2025, month>> : month \in 5 .. 11} \cup {<<2024, 7>>, <<2026, 6>>, <<2026, 7>>}

\* the dates the cells and the statistics are examined at: the first and the
\* last day of these months, and every date at most two days away from an end
\* of the semester, a value of today or a toggled date
StatDates ==
    LET all == UNION {{NewDate(ym[1], ym[2], d) : d \in 1 .. DaysInMonth(ym[1], ym[2])} :
                         ym \in StatMonths}
        pivots == {semesterStart, semesterEnd} \cup TodayDates \cup ToggleDates
    IN  {date \in all :
            \/ date.date \in {1, DaysInMonth(date.year, date.month)}
            \/ \E p \in pivots : date.time - p.time \in -2 .. 2}

(* ----------------------------- helpers -------------------------------- *)

\* `${year}-${String(month+1).padStart(2,'0')}`: the year, then two digits
monthKey(year, month) == <<year, (month + 1) \div 10, (month + 1) % 10>>

\* Array.prototype.includes
Includes(arr, x) == \E i \in 1 .. Len(arr) : arr[i] = x

\* Array.prototype.indexOf (zero-based, -1 when absent)
IndexOf(arr, x) ==
    IF Includes(arr, x)
    THEN (CHOOSE i \in 1 .. Len(arr) :
              arr[i] = x /\ \A j \in 1 .. i - 1 : arr[j] # x) - 1
    ELSE -1

\* arr.splice(index, 1)
Splice(arr, index) == SubSeq(arr, 1, index) \o SubSeq(arr, index + 2, Len(arr))

\* insertion of x before the first larger element of an ascending array
RECURSIVE InsertSorted(_, _)
InsertSorted(arr, x) ==
    IF arr = <<>> THEN <<x>>
    ELSE IF x - Head(arr) < 0 THEN <<x>> \o arr
    ELSE <<Head(arr)>> \o InsertSorted(Tail(arr), x)

\* arr.sort((a, b) => a - b)
RECURSIVE SortAscending(_)
SortAscending(arr) ==
    IF arr = <<>> THEN <<>>
    ELSE InsertSorted(SortAscending(SubSeq(arr, 1, Len(arr) - 1)), arr[Len(arr)])

\* (store[classId] && store[classId][key]) || []
DaysOf(store, classId, key) ==
    IF classId \in DOMAIN store /\ key \in DOMAIN store[classId]
    THEN store[classId][key]
    ELSE <<>>

EmptyObject == [k \in {} |-> <<>>]

(* ------------------------ toggleDayStatus ----------------------------- *)

\* faulty variant: the day is pushed whether or not it is in the list
ToggleArray_AlwaysPush(daysArray, day) ==
    SortAscending(Append(daysArray, day))

\* faulty variant: the list is not sorted after the push
ToggleArray_PushesAtTheEnd(daysArray, day) ==
    LET dayIndex == IndexOf(daysArray, day) IN
    IF dayIndex > -1
    THEN Splice(daysArray, dayIndex)
    ELSE Append(daysArray, day)

\* the edit of the day list: remove the day if present, else push and sort
ToggleArray(daysArray, day) ==
    LET dayIndex == IndexOf(daysArray, day) IN
    IF dayIndex > -1
    THEN Splice(daysArray, dayIndex)
    ELSE SortAscending(Append(daysArray, day))

\* faulty variant: the entry of the class is initialised whether or not it exists
ToggleStore_ResetsTheClass(dataObj, classId, key, day) ==
    LET byMonth == IF classId \in DOMAIN dataObj THEN dataObj[classId] ELSE EmptyObject
        daysArray == IF key \in DOMAIN byMonth THEN byMonth[key] ELSE <<>>
        newMonth == [k \in {key} |-> ToggleArray(daysArray, day)]
    IN  [c \in DOMAIN dataObj \cup {classId} |->
            IF c = classId THEN newMonth ELSE dataObj[c]]

\* faulty variant: a month whose list the edit empties is deleted, and the class
\* with it when it was its only month
ToggleStore_DropsEmptiedMonth(dataObj, classId, key, day) ==
    LET byMonth == IF classId \in DOMAIN dataObj THEN dataObj[classId] ELSE EmptyObject
        daysArray == IF key \in DOMAIN byMonth THEN byMonth[key] ELSE <<>>
        edited == ToggleArray(daysArray, day)
        keys == IF edited = <<>> THEN DOMAIN byMonth \ {key} ELSE DOMAIN byMonth \cup {key}
        newMonth == [k \in keys |-> IF k = key THEN edited ELSE byMonth[k]]
        classes == IF keys = {} THEN DOMAIN dataObj \ {classId}
                   ELSE DOMAIN dataObj \cup {classId}
    IN  [c \in classes |-> IF c = classId THEN newMonth ELSE dataObj[c]]

\* dataObj after the initialisation of the missing entries and the edit
ToggleStore(dataObj, classId, key, day) ==
    LET byMonth == IF classId \in DOMAIN dataObj THEN dataObj[classId] ELSE EmptyObject
        daysArray == IF key \in DOMAIN byMonth THEN byMonth[key] ELSE <<>>
        newMonth == [k \in DOMAIN byMonth \cup {key} |->
                        IF k = key THEN ToggleArray(daysArray, day) ELSE byMonth[k]]
    IN  [c \in DOMAIN dataObj \cup {classId} |->
            IF c = classId THEN newMonth ELSE dataObj[c]]

Entries(store) == {<<c, k>> \in UNION {{c} \X DOMAIN store[c] : c \in DOMAIN store} : TRUE}

RECURSIVE SumLen(_, _)
SumLen(store, entries) ==
    IF entries = {} THEN 0
    ELSE LET e == CHOOSE x \in entries : TRUE
         IN Len(store[e[1]][e[2]]) + SumLen(store, entries \ {e})

Marks(store) == SumLen(store, Entries(store))

WithinBounds(att, off) ==
    /\ Marks(att) + Marks(off) <= MaxMarks
    /\ Cardinality(Entries(att)) + Cardinality(Entries(off)) <= MaxEntries

toggleDayStatus(classId, day, month, year, type) ==
    LET key == monthKey(year, month)
        dataObj == IF type = "absent" THEN attendanceData ELSE offDaysData
        edited == ToggleStore(dataObj, classId, key, day)
    IN  /\ IF type = "absent"
           THEN attendanceData' = edited /\ UNCHANGED offDaysData
           ELSE offDaysData' = edited /\ UNCHANGED attendanceData
        /\ WithinBounds(attendanceData', offDaysData')
        /\ UNCHANGED today

(* ----------------------------- helpers -------------------------------- *)

\* faulty variant: the first day of the month has to lie within the semester
isMonthAllowed_FirstDayInSemester(year, month) ==
    LET monthStart == NewDate(year, month, 1)
    IN  ~(DateValue(monthStart) < DateValue(semesterStart)
          \/ DateValue(monthStart) > DateValue(semesterEnd))

isMonthAllowed(year, month) ==
    LET daysInMonth == DaysInMonth(year, month)
        monthStart == NewDate(year, month, 1)
        monthEnd == NewDate(year, month, daysInMonth)
    IN  ~(DateValue(monthEnd) < DateValue(semesterStart)
          \/ DateValue(monthStart) > DateValue(semesterEnd))

(* ---------------------------- statistics ------------------------------ *)

\* the return value of a statistics loop whose counters counted these days
Totals(days) ==
    [totalConducted |-> Cardinality(days.conducted),
     totalAbsent |-> Cardinality(days.absent),
     totalOff |-> Cardinality(days.off)]

\* faulty variant: endDay is not clamped to the day of the semester end
MonthlyDays_NoSemesterEndClamp(att, off, now, classId, month, year) ==
    LET key == monthKey(year, month)
        absents == DaysOf(att, classId, key)
        offs == DaysOf(off, classId, key)
        daysInMonth == DaysInMonth(year, month)
        startDay == IF year = semesterStart.year /\ month = semesterStart.month
                    THEN semesterStart.date ELSE 1
        endDay == IF year = now.year /\ month = now.month
                  THEN IF now.date < daysInMonth THEN now.date ELSE daysInMonth
                  ELSE daysInMonth
        counted == {d \in startDay .. endDay : GetDay(NewDate(year, month, d)) \notin {0, 6}}
    IN  [off |-> {d \in counted : Includes(offs, d)},
         conducted |-> {d \in counted : ~Includes(offs, d)},
         absent |-> {d \in counted : ~Includes(offs, d) /\ Includes(absents, d)}]

\* faulty variant: endDay is clamped to today's day in today's month of any year
MonthlyDays_TodayClampIgnoresYear(att, off, now, classId, month, year) ==
    LET key == monthKey(year, month)
        absents == DaysOf(att, classId, key)
        offs == DaysOf(off, classId, key)
        daysInMonth == DaysInMonth(year, month)
        startDay == IF year = semesterStart.year /\ month = semesterStart.month
                    THEN semesterStart.date ELSE 1
        endDay1 == IF year = semesterEnd.year /\ month = semesterEnd.month
                   THEN IF semesterEnd.date < daysInMonth THEN semesterEnd.date ELSE daysInMonth
                   ELSE daysInMonth
        endDay == IF month = now.month
                  THEN IF now.date < endDay1 THEN now.date ELSE endDay1
                  ELSE endDay1
        counted == {d \in startDay .. endDay : GetDay(NewDate(year, month, d)) \notin {0, 6}}
    IN  [off |-> {d \in counted : Includes(offs, d)},
         conducted |-> {d \in counted : ~Includes(offs, d)},
         absent |-> {d \in counted : ~Includes(offs, d) /\ Includes(absents, d)}]

\* faulty variant: nothing is counted for a class without an entry in the absence store
MonthlyDays_NothingWithoutEntry(att, off, now, classId, month, year) ==
    LET key == monthKey(year, month)
        absents == DaysOf(att, classId, key)
        offs == DaysOf(off, classId, key)
        daysInMonth == DaysInMonth(year, month)
        startDay == IF year = semesterStart.year /\ month = semesterStart.month
                    THEN semesterStart.date ELSE 1
        endDay1 == IF year = semesterEnd.year /\ month = semesterEnd.month
                   THEN IF semesterEnd.date < daysInMonth THEN semesterEnd.date ELSE daysInMonth
                   ELSE daysInMonth
        endDay == IF year = now.year /\ month = now.month
                  THEN IF now.date < endDay1 THEN now.date ELSE endDay1
                  ELSE endDay1
        counted == IF classId \notin DOMAIN att THEN {}
                   ELSE {d \in startDay .. endDay : GetDay(NewDate(year, month, d)) \notin {0, 6}}
    IN  [off |-> {d \in counted : Includes(offs, d)},
         conducted |-> {d \in counted : ~Includes(offs, d)},
         absent |-> {d \in counted : ~Includes(offs, d) /\ Includes(absents, d)}]

\* faulty variant: an absence is counted whether or not the day is an off day
MonthlyDays_AbsentCountedOnOffDays(att, off, now, classId, month, year) ==
    LET key == monthKey(year, month)
        absents == DaysOf(att, classId, key)
        offs == DaysOf(off, classId, key)
        daysInMonth == DaysInMonth(year, month)
        startDay == IF year = semesterStart.year /\ month = semesterStart.month
                    THEN semesterStart.date ELSE 1
        endDay1 == IF year = semesterEnd.year /\ month = semesterEnd.month
                   THEN IF semesterEnd.date < daysInMonth THEN semesterEnd.date ELSE daysInMonth
                   ELSE daysInMonth
        endDay == IF year = now.year /\ month = now.month
                  THEN IF now.date < endDay1 THEN now.date ELSE endDay1
                  ELSE endDay1
        counted == {d \in startDay .. endDay : GetDay(NewDate(year, month, d)) \notin {0, 6}}
    IN  [off |-> {d \in counted : Includes(offs, d)},
         conducted |-> {d \in counted : ~Includes(offs, d)},
         absent |-> {d \in counted : Includes(absents, d)}]

\* getMonthlyStats: the days of the month each counter is incremented for
MonthlyDays(att, off, now, classId, month, year) ==
    LET key == monthKey(year, month)
        absents == DaysOf(att, classId, key)
        offs == DaysOf(off, classId, key)
        daysInMonth == DaysInMonth(year, month)
        startDay == IF year = semesterStart.year /\ month = semesterStart.month
                    THEN semesterStart.date ELSE 1
        endDay1 == IF year = semesterEnd.year /\ month = semesterEnd.month
                   THEN IF semesterEnd.date < daysInMonth THEN semesterEnd.date ELSE daysInMonth
                   ELSE daysInMonth
        endDay == IF year = now.year /\ month = now.month
                  THEN IF now.date < endDay1 THEN now.date ELSE endDay1
                  ELSE endDay1
        counted == {d \in startDay .. endDay : GetDay(NewDate(year, month, d)) \notin {0, 6}}
    IN  [off |-> {d \in counted : Includes(offs, d)},
         conducted |-> {d \in counted : ~Includes(offs, d)},
         absent |-> {d \in counted : ~Includes(offs, d) /\ Includes(absents, d)}]

getMonthlyStatsIn(att, off, now, classId, month, year) ==
    Totals(MonthlyDays(att, off, now, classId, month, year))

getMonthlyStats(classId, month, year) ==
    getMonthlyStatsIn(attendanceData, offDaysData, today, classId, month, year)

\* faulty variant: the Saturdays and Sundays are not skipped
CumulativeMonthDays_CountsWeekends(att, off, endDate, classId, year, month) ==
    LET key == monthKey(year, month)
        absents == DaysOf(att, classId, key)
        offs == DaysOf(off, classId, key)
        daysInMonth == DaysInMonth(year, month)
        startDay == IF year = semesterStart.year /\ month = semesterStart.month
                    THEN semesterStart.date ELSE 1
        endDay1 == IF year = semesterEnd.year /\ month = semesterEnd.month
                   THEN IF semesterEnd.date < daysInMonth THEN semesterEnd.date ELSE daysInMonth
                   ELSE daysInMonth
        endDay == IF year = endDate.year /\ month = endDate.month
                  THEN IF endDate.date < endDay1 THEN endDate.date ELSE endDay1
                  ELSE endDay1
        counted == startDay .. endDay
    IN  [off |-> {<<year, month, d>> : d \in {x \in counted : Includes(offs, x)}},
         conducted |-> {<<year, month, d>> : d \in {x \in counted : ~Includes(offs, x)}},
         absent |-> {<<year, month, d>> :
                        d \in {x \in counted : ~Includes(offs, x) /\ Includes(absents, x)}}]

\* faulty variant: a day of the off list is counted in conducted (and absent) as well
CumulativeMonthDays_OffIsConducted(att, off, endDate, classId, year, month) ==
    LET key == monthKey(year, month)
        absents == DaysOf(att, classId, key)
        offs == DaysOf(off, classId, key)
        daysInMonth == DaysInMonth(year, month)
        startDay == IF year = semesterStart.year /\ month = semesterStart.month
                    THEN semesterStart.date ELSE 1
        endDay1 == IF year = semesterEnd.year /\ month = semesterEnd.month
                   THEN IF semesterEnd.date < daysInMonth THEN semesterEnd.date ELSE daysInMonth
                   ELSE daysInMonth
        endDay == IF year = endDate.year /\ month = endDate.month
                  THEN IF endDate.date < endDay1 THEN endDate.date ELSE endDay1
                  ELSE endDay1
        counted == {d \in startDay .. endDay : GetDay(NewDate(year, month, d)) \notin {0, 6}}
    IN  [off |-> {<<year, month, d>> : d \in {x \in counted : Includes(offs, x)}},
         conducted |-> {<<year, month, d>> : d \in counted},
         absent |-> {<<year, month, d>> : d \in {x \in counted : Includes(absents, x)}}]

\* one pass of the while loop of getStats: the days of month cur counted
CumulativeMonthDays(att, off, endDate, classId, year, month) ==
    LET key == monthKey(year, month)
        absents == DaysOf(att, classId, key)
        offs == DaysOf(off, classId, key)
        daysInMonth == DaysInMonth(year, month)
        startDay == IF year = semesterStart.year /\ month = semesterStart.month
                    THEN semesterStart.date ELSE 1
        endDay1 == IF year = semesterEnd.year /\ month = semesterEnd.month
                   THEN IF semesterEnd.date < daysInMonth THEN semesterEnd.date ELSE daysInMonth
                   ELSE daysInMonth
        endDay == IF year = endDate.year /\ month = endDate.month
                  THEN IF endDate.date < endDay1 THEN endDate.date ELSE endDay1
                  ELSE endDay1
        counted == {d \in startDay .. endDay : GetDay(NewDate(year, month, d)) \notin {0, 6}}
    IN  [off |-> {<<year, month, d>> : d \in {x \in counted : Includes(offs, x)}},
         conducted |-> {<<year, month, d>> : d \in {x \in counted : ~Includes(offs, x)}},
         absent |-> {<<year, month, d>> :
                        d \in {x \in counted : ~Includes(offs, x) /\ Includes(absents, x)}}]

\* the while loop of getStats from month cur on (cur.setMonth(cur.getMonth() + 1))
RECURSIVE CumulativeLoop(_, _, _, _, _, _)
CumulativeLoop(att, off, endDate, classId, year, month) ==
    IF DateValue(NewDate(year, month, 1)) <= DateValue(endDate)
    THEN LET here == CumulativeMonthDays(att, off, endDate, classId, year, month)
             rest == IF month = 11
                     THEN CumulativeLoop(att, off, endDate, classId, year + 1, 0)
                     ELSE CumulativeLoop(att, off, endDate, classId, year, month + 1)
         IN  [off |-> here.off \cup rest.off,
              conducted |-> here.conducted \cup rest.conducted,
              absent |-> here.absent \cup rest.absent]
    ELSE [off |-> {}, conducted |-> {}, absent |-> {}]

\* faulty variant: the loop runs through the month of today, also past the semester end
CumulativeDays_NoEndClamp(att, off, now, classId) ==
    CumulativeLoop(att, off, now, classId, semesterStart.year, semesterStart.month)

\* getStats: the dates each counter is incremented for
CumulativeDays(att, off, now, classId) ==
    LET endDate == IF DateValue(now) < DateValue(semesterEnd) THEN now ELSE semesterEnd
    IN  CumulativeLoop(att, off, endDate, classId, semesterStart.year, semesterStart.month)

\* faulty variant: a negative difference is not raised to 0
Leaves_MayBeNegative(totalConducted, totalAbsent) ==
    LET totalPossibleLeaves == totalConducted \div 4
    IN  [totalPossibleLeaves |-> totalPossibleLeaves,
         possibleLeaves |-> totalPossibleLeaves - totalAbsent]

\* the end of getStats: Math.floor(totalConducted / 4) and the leaves that are left
Leaves(totalConducted, totalAbsent) ==
    LET totalPossibleLeaves == totalConducted \div 4
        possibleLeaves == IF totalPossibleLeaves - totalAbsent < 0
                          THEN 0 ELSE totalPossibleLeaves - totalAbsent
    IN  [totalPossibleLeaves |-> totalPossibleLeaves, possibleLeaves |-> possibleLeaves]

getStatsIn(att, off, now, classId) ==
    LET t == Totals(CumulativeDays(att, off, now, classId))
        leaves == Leaves(t.totalConducted, t.totalAbsent)
    IN  [totalConducted |-> t.totalConducted, totalAbsent |-> t.totalAbsent,
         totalOff |-> t.totalOff, totalPossibleLeaves |-> leaves.totalPossibleLeaves,
         possibleLeaves |-> leaves.possibleLeaves]

getStats(classId) == getStatsIn(attendanceData, offDaysData, today, classId)

(* ---------------------------- percentage ------------------------------ *)

\* The product ((conducted - absent) / conducted) * 100 is a double: it is
\* within 2^-40 of the exact value, so Math.round of it is the integer nearest
\* to the exact value unless the exact value is a half.  Of the halves with
\* conducted <= 100, the double is the exact half (rounded up by Math.round)
\* except for 23/40 and 46/80, where 0.575 * 100 is 57.49999999999999.
DoubleBelowHalf == {<<40, 17>>, <<80, 34>>}

\* faulty variant: the fraction is cut off (Math.floor for Math.round)
Percent_CutsOff(conducted, absent) ==
    IF conducted = 0 THEN 0
    ELSE (100 * (conducted - absent)) \div conducted

\* conducted === 0 ? 0 : Math.round(((conducted - absent) / conducted) * 100)
Percent(conducted, absent) ==
    IF conducted = 0 THEN 0
    ELSE LET halfUp == (200 * (conducted - absent) + conducted) \div (2 * conducted)
         IN  IF <<conducted, absent>> \in DoubleBelowHalf THEN halfUp - 1 ELSE halfUp

\* the percentage updateCardStats writes to the card of a class
cardPercent(classId) ==
    LET stats == getStats(classId) IN Percent(stats.totalConducted, stats.totalAbsent)

\* the percentage of the monthly summary of a rendered calendar
monthlyPercent(classId, month, year) ==
    LET monthStats == getMonthlyStats(classId, month, year)
    IN  Percent(monthStats.totalConducted, monthStats.totalAbsent)

(* --------------------------- renderCalendar --------------------------- *)

\* faulty variant: the absence list is looked up before the off-day list
CellState_AbsentBeforeOff(absentDays, offDays, now, year, month, day) ==
    LET date == NewDate(year, month, day)
        inSemester == DateValue(date) >= DateValue(semesterStart)
                      /\ DateValue(date) <= DateValue(semesterEnd)
        isWeekend == GetDay(date) = 0 \/ GetDay(date) = 6
        isFuture == DateValue(date) > DateValue(now)
    IN  IF ~inSemester THEN [state |-> "OutsideSemester", clickable |-> FALSE]
        ELSE IF isFuture THEN [state |-> "Future", clickable |-> FALSE]
        ELSE IF isWeekend THEN [state |-> "Weekend", clickable |-> FALSE]
        ELSE IF Includes(absentDays, day) THEN [state |-> "Absent", clickable |-> TRUE]
        ELSE IF Includes(offDays, day) THEN [state |-> "Holiday", clickable |-> TRUE]
        ELSE [state |-> "Present", clickable |-> TRUE]

\* faulty variant: the weekend is looked at before the future
CellState_WeekendBeforeFuture(absentDays, offDays, now, year, month, day) ==
    LET date == NewDate(year, month, day)
        inSemester == DateValue(date) >= DateValue(semesterStart)
                      /\ DateValue(date) <= DateValue(semesterEnd)
        isWeekend == GetDay(date) = 0 \/ GetDay(date) = 6
        isFuture == DateValue(date) > DateValue(now)
    IN  IF ~inSemester THEN [state |-> "OutsideSemester", clickable |-> FALSE]
        ELSE IF isWeekend THEN [state |-> "Weekend", clickable |-> FALSE]
        ELSE IF isFuture THEN [state |-> "Future", clickable |-> FALSE]
        ELSE IF Includes(offDays, day) THEN [state |-> "Holiday", clickable |-> TRUE]
        ELSE IF Includes(absentDays, day) THEN [state |-> "Absent", clickable |-> TRUE]
        ELSE [state |-> "Present", clickable |-> TRUE]

\* faulty variant: the cell of a Saturday or Sunday carries the click handler
CellState_WeekendIsClickable(absentDays, offDays, now, year, month, day) ==
    LET date == NewDate(year, month, day)
        inSemester == DateValue(date) >= DateValue(semesterStart)
                      /\ DateValue(date) <= DateValue(semesterEnd)
        isWeekend == GetDay(date) = 0 \/ GetDay(date) = 6
        isFuture == DateValue(date) > DateValue(now)
    IN  IF ~inSemester THEN [state |-> "OutsideSemester", clickable |-> FALSE]
        ELSE IF isFuture THEN [state |-> "Future", clickable |-> FALSE]
        ELSE IF isWeekend THEN [state |-> "Weekend", clickable |-> TRUE]
        ELSE IF Includes(offDays, day) THEN [state |-> "Holiday", clickable |-> TRUE]
        ELSE IF Includes(absentDays, day) THEN [state |-> "Absent", clickable |-> TRUE]
        ELSE [state |-> "Present", clickable |-> TRUE]

\* the branch taken for one day cell
CellState(absentDays, offDays, now, year, month, day) ==
    LET date == NewDate(year, month, day)
        inSemester == DateValue(date) >= DateValue(semesterStart)
                      /\ DateValue(date) <= DateValue(semesterEnd)
        isWeekend == GetDay(date) = 0 \/ GetDay(date) = 6
        isFuture == DateValue(date) > DateValue(now)
    IN  IF ~inSemester THEN [state |-> "OutsideSemester", clickable |-> FALSE]
        ELSE IF isFuture THEN [state |-> "Future", clickable |-> FALSE]
        ELSE IF isWeekend THEN [state |-> "Weekend", clickable |-> FALSE]
        ELSE IF Includes(offDays, day) THEN [state |-> "Holiday", clickable |-> TRUE]
        ELSE IF Includes(absentDays, day) THEN [state |-> "Absent", clickable |-> TRUE]
        ELSE [state |-> "Present", clickable |-> TRUE]

\* renderCalendar, the day cells: none when the month is outside the semester months
renderedCells(classId, month, year) ==
    IF ~isMonthAllowed(year, month)
    THEN <<>>
    ELSE LET key == monthKey(year, month)
             absentDays == DaysOf(attendanceData, classId, key)
             offDays == DaysOf(offDaysData, classId, key)
         IN  [day \in 1 .. DaysInMonth(year, month) |->
                 CellState(absentDays, offDays, today, year, month, day)]

\* renderCalendar, the monthly summary: none when the month is outside the semester months
renderedSummary(classId, month, year) ==
    IF ~isMonthAllowed(year, month)
    THEN <<>>
    ELSE <<getMonthlyStats(classId, month, year)>>

(* ------------------------------ sessions ------------------------------ *)

SessionsIdle ==
    /\ sessions = <<>>
    /\ network = {}
    /\ document = <<>>

\* a server nobody has sent a request to
ServerIdle ==
    /\ users = <<>>
    /\ authenticated = FALSE
    /\ registrations = <<>>
    /\ served = <<>>

(* ------------------------- loadAttendanceData ------------------------- *)

\* { cs301: {}, cs302: {} }
NoMarksForClasses == [c \in ClassIds |-> EmptyObject]

\* ['cs301', 'cs302'].forEach(classId => { if (!store[classId]) store[classId] = {}; })
EnsureClasses(store) ==
    [c \in DOMAIN store \cup ClassIds |-> IF c \in DOMAIN store THEN store[c] ELSE EmptyObject]

\* what becomes of the request of loadAttendanceData
ResponseKinds == {"throws", "notOk", "badJson", "noSuccess", "success"}

\* a response that is not a payload reporting success
FailedResponse(kind) == [kind |-> kind, attendanceData |-> EmptyObject, offDaysData |-> EmptyObject]

\* a payload reporting success with these stores (a missing store reads as {})
SuccessResponse(att, off) == [kind |-> "success", attendanceData |-> att, offDaysData |-> off]

\* the globals after loadAttendanceData, given the globals before and the response
loadAttendanceData(att, off, response) ==
    CASE response.kind \in {"throws", "badJson"} ->
             [attendanceData |-> NoMarksForClasses, offDaysData |-> NoMarksForClasses]
      [] response.kind = "success" ->
             [attendanceData |-> EnsureClasses(response.attendanceData),
              offDaysData |-> EnsureClasses(response.offDaysData)]
      [] OTHER -> [attendanceData |-> att, offDaysData |-> off]

(* ------------------------------ the page ------------------------------ *)

\* at most this many calls of toggleDayStatus wait at their await
MaxResumes == 1

\* the values of new Date() during the page visit
PageDates == { NewDate(2025, 6, 10), NewDate(2025, 7, 15), NewDate(2025, 11, 5) }

\* the dates whose cells are clicked at, where they carry a click handler:
\* Saturday July 26 (before the window), Sunday July 27, Monday July 28,
\* Saturday August 16, Monday November 24 (after the window)
ClickDates ==
    { NewDate(2025, 6, 26), NewDate(2025, 6, 27), NewDate(2025, 6, 28),
      NewDate(2025, 7, 16), NewDate(2025, 10, 24) }

\* the responses the load of the page visit gets: the failures, and an empty document
PageResponses ==
    {FailedResponse(kind) : kind \in ResponseKinds \ {"success"}}
        \cup {SuccessResponse(EmptyObject, EmptyObject)}

\* faulty variant: a date after the semester end gets the month of the semester start
clampToSemesterMonth_PastEndGivesStart(date) ==
    IF DateValue(date) < DateValue(semesterStart)
    THEN [year |-> semesterStart.year, month |-> semesterStart.month]
    ELSE IF DateValue(date) > DateValue(semesterEnd)
    THEN [year |-> semesterStart.year, month |-> semesterStart.month]
    ELSE [year |-> date.year, month |-> date.month]

clampToSemesterMonth(date) ==
    IF DateValue(date) < DateValue(semesterStart)
    THEN [year |-> semesterStart.year, month |-> semesterStart.month]
    ELSE IF DateValue(date) > DateValue(semesterEnd)
    THEN [year |-> semesterEnd.year, month |-> semesterEnd.month]
    ELSE [year |-> date.year, month |-> date.month]

\* innerHTML = ''
NoMarkup == <<>>

\* the markup renderCalendar returns, as far as it acts on the page: the month
\* it is of and the days whose cell carries the handler that calls
\* toggleDayStatus(classId, day, month, year, 'absent')
renderCalendar(classId, month, year) ==
    LET cells == renderedCells(classId, month, year)
    IN  <<[year |-> year, month |-> month,
           handlers |-> {day \in DOMAIN cells : cells[day].clickable}]>>

\* the card of a class is clicked
showAttendance(classId) ==
    LET others == [c \in ClassIds |->
                      IF c # classId THEN [active |-> FALSE, markup |-> NoMarkup] ELSE dom[c]]
        wasActive == dom[classId].active
    IN  /\ IF wasActive
           THEN /\ dom' = [others EXCEPT ![classId] = [active |-> FALSE, markup |-> NoMarkup]]
                /\ UNCHANGED classState
           ELSE /\ classState' =
                       IF classId \in DOMAIN classState THEN classState
                       ELSE [c \in DOMAIN classState \cup {classId} |->
                                IF c = classId THEN clampToSemesterMonth(today)
                                ELSE classState[c]]
                /\ dom' = [others EXCEPT ![classId] =
                              [active |-> TRUE,
                               markup |-> renderCalendar(classId, classState'[classId].month,
                                                         classState'[classId].year)]]
        /\ UNCHANGED <<coreVars, resumes, loaded, netVars, serverVars>>

\* the result of the two normalising loops of changeMonth
NormalizedMonth(m, y) ==
    IF m < 0 THEN [month |-> m + 12, year |-> y - 1]
    ELSE IF m > 11 THEN [month |-> m - 12, year |-> y + 1]
    ELSE [month |-> m, year |-> y]

\* faulty variant: the month is changed whether or not it is allowed
changeMonth_WithoutTheGuard(classId, delta) ==
    LET state == IF classId \in DOMAIN classState THEN classState[classId]
                 ELSE clampToSemesterMonth(today)
        to == NormalizedMonth(state.month + delta, state.year)
        initialised == [c \in DOMAIN classState \cup {classId} |->
                           IF c \in DOMAIN classState THEN classState[c] ELSE state]
    IN  /\ dom[classId].markup # NoMarkup
        /\ classState' = [initialised EXCEPT ![classId] = to]
        /\ dom' = [dom EXCEPT ![classId].markup =
                      renderCalendar(classId, to.month, to.year)]
        /\ UNCHANGED <<coreVars, resumes, loaded, netVars, serverVars>>

\* an arrow of the calendar header of a class is clicked
changeMonth(classId, delta) ==
    LET state == IF classId \in DOMAIN classState THEN classState[classId]
                 ELSE clampToSemesterMonth(today)
        to == NormalizedMonth(state.month + delta, state.year)
        initialised == [c \in DOMAIN classState \cup {classId} |->
                           IF c \in DOMAIN classState THEN classState[c] ELSE state]
    IN  /\ dom[classId].markup # NoMarkup
        /\ IF ~isMonthAllowed(to.year, to.month)
           THEN classState' = initialised /\ UNCHANGED dom
           ELSE /\ classState' = [initialised EXCEPT ![classId] = to]
                /\ dom' = [dom EXCEPT ![classId].markup =
                              renderCalendar(classId, to.month, to.year)]
        /\ UNCHANGED <<coreVars, resumes, loaded, netVars, serverVars>>

Waiting == LET total[S \in SUBSET ClassIds] ==
                   IF S = {} THEN 0
                   ELSE LET c == CHOOSE x \in S : TRUE IN resumes[c] + total[S \ {c}]
           IN  total[ClassIds]

\* faulty variant: the handler of a Holiday cell toggles the off days
cellClicked_HolidayTogglesOff(classId, date) ==
    /\ dom[classId].markup # NoMarkup
    /\ LET shown == dom[classId].markup[1]
           offDays == DaysOf(offDaysData, classId, monthKey(shown.year, shown.month))
       IN  /\ date.year = shown.year /\ date.month = shown.month
           /\ date.date \in shown.handlers
           /\ toggleDayStatus(classId, date.date, shown.month, shown.year,
                              IF Includes(offDays, date.date) THEN "off" ELSE "absent")
    /\ Waiting < MaxResumes
    /\ resumes' = [resumes EXCEPT ![classId] = @ + 1]
    /\ UNCHANGED <<classState, dom, loaded, netVars, serverVars>>

\* a day cell of the markup of a class is clicked: toggleDayStatus up to its await
cellClicked(classId, date) ==
    /\ dom[classId].markup # NoMarkup
    /\ LET shown == dom[classId].markup[1]
       IN  /\ date.year = shown.year /\ date.month = shown.month
           /\ date.date \in shown.handlers
           /\ toggleDayStatus(classId, date.date, shown.month, shown.year, "absent")
    /\ Waiting < MaxResumes
    /\ resumes' = [resumes EXCEPT ![classId] = @ + 1]
    /\ UNCHANGED <<classState, dom, loaded, netVars, serverVars>>

\* toggleDayStatus after its await: the calendar of the class is rendered again
\* for the month classState holds (a TypeError ends the call when it holds none)
toggleDayStatusResumes(classId) ==
    /\ resumes[classId] > 0
    /\ resumes' = [resumes EXCEPT ![classId] = @ - 1]
    /\ IF classId \in DOMAIN classState
       THEN dom' = [dom EXCEPT ![classId].markup =
                       renderCalendar(classId, classState[classId].month,
                                      classState[classId].year)]
       ELSE UNCHANGED dom
    /\ UNCHANGED <<coreVars, classState, loaded, netVars, serverVars>>

\* the load handler of the window, from the response of loadAttendanceData on
windowLoaded(response) ==
    LET stores == loadAttendanceData(attendanceData, offDaysData, response)
        clamped == clampToSemesterMonth(today)
    IN  /\ ~loaded
        /\ loaded' = TRUE
        /\ attendanceData' = stores.attendanceData
        /\ offDaysData' = stores.offDaysData
        /\ classState' = [c \in DOMAIN classState \cup DOMAIN stores.attendanceData |->
                             IF c \in DOMAIN stores.attendanceData THEN clamped
                             ELSE classState[c]]
        /\ UNCHANGED <<today, dom, resumes, netVars, serverVars>>

\* the page before any event
PageInit ==
    /\ classState = EmptyObject
    /\ dom = [c \in ClassIds |-> [active |-> FALSE, markup |-> NoMarkup]]
    /\ resumes = [c \in ClassIds |-> 0]
    /\ loaded = FALSE

(* --------------------------- specification ---------------------------- *)

Init ==
    /\ attendanceData = EmptyObject
    /\ offDaysData = EmptyObject
    /\ today \in TodayDates
    /\ PageInit
    /\ SessionsIdle
    /\ ServerIdle

\* a call of the global toggleDayStatus
Toggle ==
    /\ \E classId \in ClassIds, d \in ToggleDates, type \in ToggleTypes :
           toggleDayStatus(classId, d.date, d.month, d.year, type)
    /\ UNCHANGED <<uiVars, netVars, serverVars>>

\* time passes between two calls of new Date()
ClockAdvances ==
    /\ \E t \in TodayDates : DateValue(t) > DateValue(today) /\ today' = t
    /\ UNCHANGED <<attendanceData, offDaysData, uiVars, netVars, serverVars>>

Next == Toggle \/ ClockAdvances

Spec == Init /\ [][Next]_vars

TypeOK ==
    /\ today \in TodayDates
    /\ DOMAIN attendanceData \subseteq ClassIds
    /\ DOMAIN offDaysData \subseteq ClassIds

(* -------------------- the toggles of one month ------------------------ *)

\* the weekdays July 28 .. 31, 2025
ListDates == {NewDate(2025, 6, day) : day \in 28 .. 31}

\* the absence stores the toggles start from: empty, or loaded with a sorted list
ListStores ==
    { EmptyObject,
      [c \in {"cs301"} |-> [k \in {monthKey(2025, 6)} |-> <<29, 31>>]] }

ListInit ==
    /\ attendanceData \in ListStores
    /\ offDaysData = EmptyObject
    /\ today = NewDate(2025, 7, 15)
    /\ PageInit
    /\ SessionsIdle
    /\ ServerIdle

ListToggle ==
    /\ \E classId \in ClassIds, d \in ListDates, type \in ToggleTypes :
           toggleDayStatus(classId, d.date, d.month, d.year, type)
    /\ UNCHANGED <<uiVars, netVars, serverVars>>

ListNext == ListToggle

ListSpec == ListInit /\ [][ListNext]_vars

(* ------------------------- the page visit ----------------------------- *)

UiInit ==
    /\ attendanceData = EmptyObject
    /\ offDaysData = EmptyObject
    /\ today \in PageDates
    /\ PageInit
    /\ SessionsIdle
    /\ ServerIdle

CardClick == \E classId \in ClassIds : showAttendance(classId)

ArrowClick == \E classId \in ClassIds, delta \in {-1, 1} : changeMonth(classId, delta)

CellClick == \E classId \in ClassIds, date \in ClickDates : cellClicked(classId, date)

ToggleResumes == \E classId \in ClassIds : toggleDayStatusResumes(classId)

WindowLoad == \E response \in PageResponses : windowLoaded(response)

PageClockAdvances ==
    /\ \E t \in PageDates : DateValue(t) > DateValue(today) /\ today' = t
    /\ UNCHANGED <<attendanceData, offDaysData, uiVars, netVars, serverVars>>

UiNext ==
    \/ CardClick
    \/ ArrowClick
    \/ CellClick
    \/ ToggleResumes
    \/ WindowLoad
    \/ PageClockAdvances

UiSpec == UiInit /\ [][UiNext]_vars

(* ------------------- the page visit with off days --------------------- *)

\* the documents the load of this visit gets: Monday July 28, 2025 is an off day
\* of cs301, and Tuesday July 29 is or is not an absence
HolidayResponses ==
    LET july(days) == [c \in {"cs301"} |-> [k \in {monthKey(2025, 6)} |-> days]]
    IN  { SuccessResponse(EmptyObject, july(<<28>>)),
          SuccessResponse(july(<<29>>), july(<<28>>)) }

HolidayInit ==
    /\ attendanceData = EmptyObject
    /\ offDaysData = EmptyObject
    /\ today = NewDate(2025, 7, 15)
    /\ PageInit
    /\ SessionsIdle
    /\ ServerIdle

HolidayLoad == \E response \in HolidayResponses : windowLoaded(response)

HolidayNext ==
    \/ HolidayLoad
    \/ CardClick
    \/ ArrowClick
    \/ CellClick
    \/ ToggleResumes

HolidaySpec == HolidayInit /\ [][HolidayNext]_vars

(* -------------------------- the edit sessions ------------------------- *)

SessionIds == {"s1", "s2"}

\* at most this many toggles in one session
MaxToggles == 1

\* the days of cs301 the sessions toggle: Monday July 28 and Tuesday July 29, 2025
SessionDates == { NewDate(2025, 6, 28), NewDate(2025, 6, 29) }

\* the persisted document when nothing was ever saved
EmptyDocument == [attendanceData |-> EmptyObject, offDaysData |-> EmptyObject]

\* the globals of a page whose script has run and whose load handler has not,
\* and the stores its card statistics and calendar were last written from
NewSession ==
    [attendanceData |-> EmptyObject, offDaysData |-> EmptyObject,
     load |-> "unsent", toggles |-> 0,
     displayed |-> [attendanceData |-> EmptyObject, offDaysData |-> EmptyObject]]

\* JSON.stringify({ attendanceData, offDaysData })
saveRequestBody(att, off) == [attendanceData |-> att, offDaysData |-> off]

\* the load handler of the window up to the fetch of loadAttendanceData
loadRequested(s) ==
    /\ sessions[s].load = "unsent"
    /\ sessions' = [sessions EXCEPT ![s].load = "pending"]
    /\ network' = network \cup {[type |-> "GET", session |-> s, seq |-> 0]}
    /\ UNCHANGED <<coreVars, uiVars, serverVars, document>>

\* the request of a load is answered: with the persisted document, or it fails
loadAnswered(m, kind) ==
    /\ m.type = "GET"
    /\ network' = (network \ {m}) \cup
           {[type |-> "loadResponse", session |-> m.session, seq |-> 0,
             response |-> IF kind = "success"
                          THEN SuccessResponse(document.attendanceData, document.offDaysData)
                          ELSE FailedResponse(kind)]}
    /\ UNCHANGED <<coreVars, uiVars, serverVars, sessions, document>>

\* loadAttendanceData after its awaits; updateCardStats is called where the
\* stores are assigned
loadReturns(m) ==
    /\ m.type = "loadResponse"
    /\ LET s == m.session
           stores == loadAttendanceData(sessions[s].attendanceData,
                                        sessions[s].offDaysData, m.response)
       IN  sessions' = [sessions EXCEPT
                           ![s].attendanceData = stores.attendanceData,
                           ![s].offDaysData = stores.offDaysData,
                           ![s].load = IF m.response.kind = "success"
                                       THEN "loaded" ELSE "failed",
                           ![s].displayed =
                               IF m.response.kind \in {"success", "throws", "badJson"}
                               THEN stores ELSE @]
    /\ network' = network \ {m}
    /\ UNCHANGED <<coreVars, uiVars, serverVars, document>>

\* faulty variant: the snapshot is sent before the edit is made
sessionToggles_SavesBeforeTheEdit(s, classId, date, type) ==
    LET session == sessions[s]
        key == monthKey(date.year, date.month)
        dataObj == IF type = "absent" THEN session.attendanceData ELSE session.offDaysData
        edited == ToggleStore(dataObj, classId, key, date.date)
        att == IF type = "absent" THEN edited ELSE session.attendanceData
        off == IF type = "absent" THEN session.offDaysData ELSE edited
    IN  /\ session.toggles < MaxToggles
        /\ sessions' = [sessions EXCEPT ![s].attendanceData = att,
                                        ![s].offDaysData = off,
                                        ![s].toggles = @ + 1]
        /\ network' = network \cup
               {[type |-> "POST", session |-> s, seq |-> session.toggles + 1,
                 body |-> saveRequestBody(session.attendanceData, session.offDaysData)]}
        /\ UNCHANGED <<coreVars, uiVars, serverVars, document>>

\* toggleDayStatus in a session up to its await: the edit, and the request of
\* saveAttendanceData with the globals as they are then
sessionToggles(s, classId, date, type) ==
    LET session == sessions[s]
        key == monthKey(date.year, date.month)
        dataObj == IF type = "absent" THEN session.attendanceData ELSE session.offDaysData
        edited == ToggleStore(dataObj, classId, key, date.date)
        att == IF type = "absent" THEN edited ELSE session.attendanceData
        off == IF type = "absent" THEN session.offDaysData ELSE edited
    IN  /\ session.toggles < MaxToggles
        /\ sessions' = [sessions EXCEPT ![s].attendanceData = att,
                                        ![s].offDaysData = off,
                                        ![s].toggles = @ + 1]
        /\ network' = network \cup
               {[type |-> "POST", session |-> s, seq |-> session.toggles + 1,
                 body |-> saveRequestBody(att, off)]}
        /\ UNCHANGED <<coreVars, uiVars, serverVars, document>>

\* the persistence collaborator replaces the whole document by the snapshot
saveServed(m) ==
    /\ m.type = "POST"
    /\ document' = m.body
    /\ network' = (network \ {m}) \cup
           {[type |-> "saveResponse", session |-> m.session, seq |-> m.seq, ok |-> TRUE]}
    /\ UNCHANGED <<coreVars, uiVars, serverVars, sessions>>

\* the request of a save fails: a response that is not OK, or fetch throws
saveFailed(m) ==
    /\ m.type = "POST"
    /\ network' = (network \ {m}) \cup
           {[type |-> "saveResponse", session |-> m.session, seq |-> m.seq, ok |-> FALSE]}
    /\ UNCHANGED <<coreVars, uiVars, serverVars, sessions, document>>

\* faulty variant: a save that failed is sent again
saveReturns_RetriesAfterFailure(m) ==
    /\ m.type = "saveResponse"
    /\ LET session == sessions[m.session]
           stores == saveRequestBody(session.attendanceData, session.offDaysData)
       IN  /\ network' = (network \ {m}) \cup
                  (IF m.ok THEN {}
                   ELSE {[type |-> "POST", session |-> m.session, seq |-> m.seq,
                          body |-> stores]})
           /\ sessions' = [sessions EXCEPT ![m.session].displayed = stores]
    /\ UNCHANGED <<coreVars, uiVars, serverVars, document>>

\* saveAttendanceData returns true or false, which toggleDayStatus drops: it
\* goes on to write the calendar and the card statistics from the globals
saveReturns(m) ==
    /\ m.type = "saveResponse"
    /\ network' = network \ {m}
    /\ sessions' = [sessions EXCEPT ![m.session].displayed =
                        saveRequestBody(sessions[m.session].attendanceData,
                                        sessions[m.session].offDaysData)]
    /\ UNCHANGED <<coreVars, uiVars, serverVars, document>>

SessionsInit ==
    /\ attendanceData = EmptyObject
    /\ offDaysData = EmptyObject
    /\ today = NewDate(2025, 7, 15)
    /\ PageInit
    /\ sessions = [s \in SessionIds |-> NewSession]
    /\ network = {}
    /\ document = EmptyDocument
    /\ ServerIdle

LoadRequested == \E s \in SessionIds : loadRequested(s)

LoadAnswered == \E m \in network, kind \in ResponseKinds : loadAnswered(m, kind)

LoadReturns == \E m \in network : loadReturns(m)

SessionToggles ==
    \E s \in SessionIds, date \in SessionDates : sessionToggles(s, "cs301", date, "absent")

SaveServed == \E m \in network : saveServed(m)

SaveFailed == \E m \in network : saveFailed(m)

SaveReturns == \E m \in network : saveReturns(m)

SessionsNext ==
    \/ LoadRequested
    \/ LoadAnswered
    \/ LoadReturns
    \/ SessionToggles
    \/ SaveServed
    \/ SaveFailed
    \/ SaveReturns

SessionsSpec == SessionsInit /\ [][SessionsNext]_vars

(* ------------------------------ the server ---------------------------- *)

\* at most this many calls of POST /api/register
MaxRegistrations == 2

\* the addresses the forms are sent with
Emails == {"amy@x.io", "Amy@x.io"}

\* String.prototype.toLowerCase on these addresses
ToLowerCase(email) == IF email = "Amy@x.io" THEN "amy@x.io" ELSE email

\* the passwords of the registration forms: a missing one, one of five
\* characters and two of six
Passwords == {"", "abc12", "abc123", "xyz789"}

PasswordLength(password) ==
    CASE password = "" -> 0
      [] password = "abc12" -> 5
      [] OTHER -> 6

\* the bodies POST /api/register is called with
RegisterForms ==
    [name : {"", "Amy"}, email : Emails, password : Passwords, confirmPassword : Passwords]

\* the requests the browser sends by navigation or by fetch
BrowserRequests ==
    { <<"GET", "/">>, <<"GET", "/att.html">>, <<"GET", "/login">>, <<"GET", "/logout">>,
      <<"GET", "/api/current-user">>, <<"GET", "/api/attendance">>,
      <<"POST", "/api/attendance">> }

\* faulty variant: the route of the dashboard that has no isAuthenticated is
\* registered before the one that has it
routes_UnprotectedHomeFirst ==
    << [method |-> "GET", path |-> "/", stack |-> <<"sendDashboard">>],
       [method |-> "GET", path |-> "/", stack |-> <<"isAuthenticated", "sendDashboard">>],
       [method |-> "GET", path |-> "/att.html", stack |-> <<"isAuthenticated", "sendDashboard">>],
       [method |-> "GET", path |-> "/login", stack |-> <<"sendLoginPage">>],
       [method |-> "GET", path |-> "/logout", stack |-> <<"logout">>],
       [method |-> "POST", path |-> "/api/logout", stack |-> <<"apiLogout">>],
       [method |-> "ALL", path |-> "*", stack |-> <<"notFound">>] >>

\* the routes and the middleware of the application, in the order of their
\* registration (the body parsers, the session middleware and the static files
\* of /public pass these requests on)
routes ==
    << [method |-> "GET", path |-> "/", stack |-> <<"isAuthenticated", "sendDashboard">>],
       [method |-> "GET", path |-> "/att.html", stack |-> <<"isAuthenticated", "sendDashboard">>],
       [method |-> "GET", path |-> "/login", stack |-> <<"sendLoginPage">>],
       [method |-> "GET", path |-> "/register", stack |-> <<"sendRegisterPage">>],
       [method |-> "GET", path |-> "/auth/google", stack |-> <<"googleAuth">>],
       [method |-> "GET", path |-> "/auth/google/callback", stack |-> <<"googleAuth">>],
       [method |-> "GET", path |-> "/logout", stack |-> <<"logout">>],
       [method |-> "GET", path |-> "/api/current-user", stack |-> <<"currentUser">>],
       [method |-> "GET", path |-> "/api/debug-user/:email", stack |-> <<"debugUser">>],
       [method |-> "POST", path |-> "/api/login", stack |-> <<"apiLogin">>],
       [method |-> "POST", path |-> "/api/register", stack |-> <<"apiRegister">>],
       [method |-> "GET", path |-> "/logout", stack |-> <<"logout">>],
       [method |-> "POST", path |-> "/api/logout", stack |-> <<"apiLogout">>],
       [method |-> "GET", path |-> "/", stack |-> <<"sendDashboard">>],
       [method |-> "GET", path |-> "/api/user", stack |-> <<"apiUser">>],
       [method |-> "GET", path |-> "/health", stack |-> <<"health">>],
       [method |-> "ALL", path |-> "*", stack |-> <<"notFound">>] >>

\* what a handler answers with; res.redirect sets the status 302
Answer(handler, isAuth) ==
    CASE handler = "sendDashboard" ->
             [handler |-> handler, status |-> 200, body |-> "att.html", location |-> ""]
      [] handler = "sendLoginPage" ->
             [handler |-> handler, status |-> 200, body |-> "login.html", location |-> ""]
      [] handler = "sendRegisterPage" ->
             [handler |-> handler, status |-> 200, body |-> "register.html", location |-> ""]
      [] handler \in {"isAuthenticated", "logout", "notFound"} ->
             [handler |-> handler, status |-> 302, body |-> "", location |-> "/login"]
      [] handler = "currentUser" ->
             IF isAuth
             THEN [handler |-> handler, status |-> 200, body |-> "user", location |-> ""]
             ELSE [handler |-> handler, status |-> 401, body |-> "Not authenticated",
                   location |-> ""]
      [] handler = "apiLogout" ->
             [handler |-> handler, status |-> 200, body |-> "Logout successful",
              location |-> ""]
      [] handler = "googleAuth" ->
             [handler |-> handler, status |-> 302, body |-> "", location |-> "google"]
      [] OTHER ->
             [handler |-> handler, status |-> 200, body |-> "json", location |-> ""]

\* the handlers of a route, one after the other: isAuthenticated calls next()
\* for a session that is logged in and redirects any other
RECURSIVE RunStack(_, _)
RunStack(stack, isAuth) ==
    IF Head(stack) = "isAuthenticated" /\ isAuth
    THEN RunStack(Tail(stack), isAuth)
    ELSE Answer(Head(stack), isAuth)

\* the router: the first layer that matches the method and the path answers
RECURSIVE Dispatch(_, _, _, _)
Dispatch(layers, method, path, isAuth) ==
    IF layers = <<>>
    THEN [handler |-> "finalhandler", status |-> 404, body |-> "Cannot " \o method,
          location |-> ""]
    ELSE LET layer == Head(layers)
         IN  IF /\ layer.method \in {"ALL", method}
                /\ layer.path \in {"*", path}
             THEN RunStack(layer.stack, isAuth)
             ELSE Dispatch(Tail(layers), method, path, isAuth)

\* one request and its response
Exchange(method, path, isAuth) ==
    LET answer == Dispatch(routes, method, path, isAuth)
    IN  [method |-> method, path |-> path, authenticated |-> isAuth,
         handler |-> answer.handler, status |-> answer.status, body |-> answer.body,
         location |-> answer.location]

\* req.isAuthenticated() after the handler: req.logout ends the login session
AfterHandler(handler, isAuth) == IF handler = "logout" THEN FALSE ELSE isAuth

\* a request of the browser, and the GET of /login when the response redirects
\* there (a navigation and a fetch both follow the redirect)
Exchanges(method, path, isAuth) ==
    LET first == Exchange(method, path, isAuth)
    IN  IF first.status = 302 /\ first.location = "/login"
        THEN <<first, Exchange("GET", "/login", AfterHandler(first.handler, isAuth))>>
        ELSE <<first>>

\* the browser navigates to a page, or the script of the page fetches a URL
requested(method, path) ==
    LET exchanges == Exchanges(method, path, authenticated)
    IN  /\ served' = exchanges
        /\ authenticated' = AfterHandler(exchanges[1].handler, authenticated)
        /\ UNCHANGED <<coreVars, uiVars, netVars, users, registrations>>

\* logout() of the page: the fetch of POST /api/logout, then
\* window.location.href = '/login'
logout ==
    LET posted == Exchange("POST", "/api/logout", authenticated)
        isAuth == AfterHandler(posted.handler, authenticated)
    IN  /\ served' = <<posted, Exchange("GET", "/login", isAuth)>>
        /\ authenticated' = isAuth
        /\ UNCHANGED <<coreVars, uiVars, netVars, users, registrations>>

\* User.findOne({ email })
FindOne(collection, email) == {i \in 1 .. Len(collection) : collection[i].email = email}

\* POST /api/login: bcrypt.compare is given by passwordMatches
apiLogin(email, password, passwordMatches) ==
    LET found == FindOne(users, ToLowerCase(email))
        answer ==
            IF email = "" \/ password = ""
            THEN [status |-> 400, body |-> "Email and password are required"]
            ELSE IF found = {} \/ ~passwordMatches
            THEN [status |-> 401, body |-> "Invalid email or password"]
            ELSE [status |-> 200, body |-> "Login successful"]
    IN  /\ served' = << [method |-> "POST", path |-> "/api/login",
                           authenticated |-> authenticated, handler |-> "apiLogin",
                           status |-> answer.status, body |-> answer.body,
                           location |-> ""] >>
        /\ authenticated' = (authenticated \/ answer.status = 200)
        /\ UNCHANGED <<coreVars, uiVars, netVars, users, registrations>>

\* POST /api/register up to the hashing of the password: the checks of the form
\* and the lookup of the address
registerReceived(form) ==
    LET refused ==
            IF form.name = "" \/ form.email = "" \/ form.password = ""
               \/ form.confirmPassword = ""
            THEN "All fields are required"
            ELSE IF form.password # form.confirmPassword
            THEN "Passwords do not match"
            ELSE IF PasswordLength(form.password) < 6
            THEN "Password must be at least 6 characters long"
            ELSE IF FindOne(users, ToLowerCase(form.email)) # {}
            THEN "User already exists with this email"
            ELSE ""
    IN  /\ Len(registrations) < MaxRegistrations
        /\ registrations' = Append(registrations,
               IF refused # ""
               THEN [email |-> form.email, pc |-> "answered", status |-> 400,
                     body |-> refused]
               ELSE [email |-> form.email, pc |-> "hashing", status |-> 0, body |-> ""])
        /\ UNCHANGED <<coreVars, uiVars, netVars, users, authenticated, served>>

\* POST /api/register from user.save() on: the unique index of the address
\* makes the insert of a second document with this address throw, and the catch
\* block answers
registerSaves(r) ==
    LET email == ToLowerCase(registrations[r].email)
    IN  /\ registrations[r].pc = "hashing"
        /\ IF FindOne(users, email) # {}
           THEN /\ registrations' = [registrations EXCEPT
                       ![r] = [@ EXCEPT !.pc = "answered", !.status = 500,
                                        !.body = "Server error"]]
                /\ UNCHANGED users
           ELSE /\ users' = Append(users, [email |-> email])
                /\ registrations' = [registrations EXCEPT
                       ![r] = [@ EXCEPT !.pc = "answered", !.status = 200,
                                        !.body = "Registration successful"]]
        /\ UNCHANGED <<coreVars, uiVars, netVars, authenticated, served>>

ServerInit ==
    /\ attendanceData = EmptyObject
    /\ offDaysData = EmptyObject
    /\ today = NewDate(2025, 7, 15)
    /\ PageInit
    /\ SessionsIdle
    /\ ServerIdle

Requested == \E request \in BrowserRequests : requested(request[1], request[2])

Logout == logout

ApiLogin ==
    \E email \in Emails \cup {""}, password \in {"", "abc123"}, passwordMatches \in BOOLEAN :
        apiLogin(email, password, passwordMatches)

RegisterReceived == \E form \in RegisterForms : registerReceived(form)

RegisterSaves == \E r \in 1 .. Len(registrations) : registerSaves(r)

ServerNext ==
    \/ Requested
    \/ Logout
    \/ ApiLogin
    \/ RegisterReceived
    \/ RegisterSaves

ServerSpec == ServerInit /\ [][ServerNext]_vars

(* ------------------------ notions of the claims ----------------------- *)

NoStats == [totalConducted |-> 0, totalAbsent |-> 0, totalOff |-> 0]

\* the examined days of each month
StatDays == [ym \in StatMonths |->
                {date.date : date \in {x \in StatDates : x.year = ym[1] /\ x.month = ym[2]}}]

\* the days of the list a store holds for a class and a month
DaySet(store, classId, year, month) ==
    LET arr == DaysOf(store, classId, monthKey(year, month))
    IN  {arr[i] : i \in DOMAIN arr}

\* the days that are in both lists of a class and a month
InBothLists(classId, year, month) ==
    DaySet(attendanceData, classId, year, month) \cap DaySet(offDaysData, classId, year, month)

OutsideWindow(date) == date.time < semesterStart.time \/ date.time > semesterEnd.time

AfterToday(date) == date.time > today.time

SaturdayOrSunday(date) == date.time % 7 \in {0, 6}

\* the cell of a date in the calendar of its month, rendered or not
CellOf(classId, date) ==
    CellState(DaysOf(attendanceData, classId, monthKey(date.year, date.month)),
              DaysOf(offDaysData, classId, monthKey(date.year, date.month)),
              today, date.year, date.month, date.date)

MonthlyNow(classId, ym) ==
    MonthlyDays(attendanceData, offDaysData, today, classId, ym[2], ym[1])

CumulativeNow(classId) == CumulativeDays(attendanceData, offDaysData, today, classId)

(* ------------------------------- C1 ----------------------------------- *)

\* C1: for a month lying entirely after today (September 2025 when today is
\* Aug 15, 2025), the monthly statistics are conducted = 0, absent = 0 and
\* off = 0 for every class and every store content.
C1_FutureMonthCountsNothing ==
    \A classId \in ClassIds, ym \in StatMonths :
        AfterToday(NewDate(ym[1], ym[2], 1))
            => getMonthlyStats(classId, ym[2], ym[1]) = NoStats

(* ------------------------------- C2 ----------------------------------- *)

ClassifyRules(classId, date) ==
    << OutsideWindow(date),
       AfterToday(date),
       SaturdayOrSunday(date),
       date.date \in DaySet(offDaysData, classId, date.year, date.month),
       date.date \in DaySet(attendanceData, classId, date.year, date.month),
       TRUE >>

ClassifyNames ==
    <<"OutsideSemester", "Future", "Weekend", "Holiday", "Absent", "Present">>

ClassifyDay(classId, date) ==
    LET rules == ClassifyRules(classId, date)
    IN  ClassifyNames[CHOOSE i \in 1 .. 6 : rules[i] /\ \A j \in 1 .. i - 1 : ~rules[j]]

\* C3: every cell of a rendered calendar has the state of the first matching
\* rule: outside the window, after today, Saturday or Sunday, in the off-day
\* list, in the absence list, otherwise Present.
C3_CellIsFirstMatchingRule ==
    \A classId \in ClassIds, ym \in StatMonths :
        LET cells == renderedCells(classId, ym[2], ym[1])
        IN  \A day \in DOMAIN cells \cap StatDays[ym] :
                cells[day].state = ClassifyDay(classId, NewDate(ym[1], ym[2], day))

\* a rendered calendar has a Holiday cell for a day that is in both lists, and
\* the rendered calendars of that class have cells of each other state that
\* is not Absent
C3_Witness ==
    \E classId \in ClassIds :
        /\ \E ym \in StatMonths :
               \E day \in InBothLists(classId, ym[1], ym[2]) :
                   LET cells == renderedCells(classId, ym[2], ym[1])
                   IN  day \in DOMAIN cells /\ cells[day].state = "Holiday"
        /\ \A name \in {"OutsideSemester", "Future", "Weekend", "Present"} :
               \E ym \in StatMonths :
                   LET cells == renderedCells(classId, ym[2], ym[1])
                   IN  \E day \in DOMAIN cells : cells[day].state = name

(* ------------------------------- C4 ----------------------------------- *)

\* C4 as stated: every date after today, whatever the date, has a Future cell.
C4_AfterTodayIsFuture ==
    \A classId \in ClassIds, ym \in StatMonths :
        LET cells == renderedCells(classId, ym[2], ym[1])
        IN  \A day \in DOMAIN cells \cap StatDays[ym] :
                AfterToday(NewDate(ym[1], ym[2], day)) => cells[day].state = "Future"

\* C4 amended: every date after today that lies within the semester window has
\* a Future cell.
C4_AfterTodayInWindowIsFuture ==
    \A classId \in ClassIds, ym \in StatMonths :
        LET cells == renderedCells(classId, ym[2], ym[1])
        IN  \A day \in DOMAIN cells \cap StatDays[ym] :
                LET date == NewDate(ym[1], ym[2], day)
                IN  (AfterToday(date) /\ ~OutsideWindow(date)) => cells[day].state = "Future"

\* a Saturday of the window that is after today is marked in both stores
C4_Witness ==
    \E classId \in ClassIds, ym \in StatMonths :
        \E day \in InBothLists(classId, ym[1], ym[2]) :
            LET date == NewDate(ym[1], ym[2], day)
            IN  /\ AfterToday(date) /\ ~OutsideWindow(date) /\ SaturdayOrSunday(date)
                /\ renderedCells(classId, ym[2], ym[1])[day].state = "Future"

(* ------------------------------- C5 ----------------------------------- *)

\* C5: no day of any class and month is in the absence list and in the
\* off-day list at the same time.
C5_NeverInBothLists ==
    \A classId \in ClassIds, ym \in StatMonths : InBothLists(classId, ym[1], ym[2]) = {}

(* ------------------------------- C6 ----------------------------------- *)

\* the store a toggle of this kind edits
TargetStore(type) == IF type = "absent" THEN attendanceData ELSE offDaysData

\* C6: two toggles with the same (class, day, month, year, kind) restore the
\* membership of the day in the target list; and a cell that is Present is
\* Absent after one absent-toggle of its day and Present after the second.
C6_ToggleTwiceRestores ==
    \A classId \in ClassIds, d \in ToggleDates, type \in ToggleTypes :
        LET key == monthKey(d.year, d.month)
            before == TargetStore(type)
            once == ToggleStore(before, classId, key, d.date)
            twice == ToggleStore(once, classId, key, d.date)
            offDays == DaysOf(offDaysData, classId, key)
            cell(att) == CellState(DaysOf(att, classId, key), offDays, today,
                                   d.year, d.month, d.date).state
        IN  /\ Includes(DaysOf(twice, classId, key), d.date)
                   <=> Includes(DaysOf(before, classId, key), d.date)
            /\ (type = "absent" /\ cell(before) = "Present")
                   => (cell(once) = "Absent" /\ cell(twice) = "Present")

\* Monday July 28, 2025 of cs301 was marked absent and un-marked again (its
\* list is there and is empty), and its cell is Present
C6_Witness ==
    LET key == monthKey(2025, 6) IN
    /\ "cs301" \in DOMAIN attendanceData
    /\ key \in DOMAIN attendanceData["cs301"]
    /\ attendanceData["cs301"][key] = <<>>
    /\ CellOf("cs301", NewDate(2025, 6, 28)).state = "Present"

(* ------------------------------- C7 ----------------------------------- *)

RefStartDay(year, month) ==
    IF <<year, month>> = <<semesterStart.year, semesterStart.month>>
    THEN semesterStart.date ELSE 1

RefMin(S) == CHOOSE x \in S : \A y \in S : x <= y

RefEndDay(year, month) ==
    RefMin({DaysInMonth(year, month)}
           \cup (IF <<year, month>> = <<semesterEnd.year, semesterEnd.month>>
                 THEN {semesterEnd.date} ELSE {})
           \cup (IF <<year, month>> = <<today.year, today.month>>
                 THEN {today.date} ELSE {}))

\* <<conducted, absent, off>> of the reference: of the days startDay .. endDay
\* that are no Saturday or Sunday, those not in the off list, those of them
\* in the absence list, and those in the off list
RefMonthly(classId, year, month) ==
    LET classDays == {d \in RefStartDay(year, month) .. RefEndDay(year, month) :
                         ~SaturdayOrSunday(NewDate(year, month, d))}
        absentSet == DaySet(attendanceData, classId, year, month)
        offSet == DaySet(offDaysData, classId, year, month)
    IN  << Cardinality(classDays \ offSet),
           Cardinality((classDays \cap absentSet) \ offSet),
           Cardinality(classDays \cap offSet) >>

AsTriple(stats) == <<stats.totalConducted, stats.totalAbsent, stats.totalOff>>

\* C7: the monthly statistics of every class and month are the counters of the
\* reference loop over startDay .. endDay: a Saturday or Sunday counts
\* nowhere, a day of the off list counts in off only, any other day counts in
\* conducted and, when in the absence list, in absent too.
C7_MonthlyStatsAreReference ==
    \A classId \in ClassIds, ym \in StatMonths :
        AsTriple(getMonthlyStats(classId, ym[2], ym[1])) = RefMonthly(classId, ym[1], ym[2])

\* in the month of today, cut at today, some class has an absence among its
\* conducted days and some class has an off day
C7_Witness ==
    /\ RefEndDay(today.year, today.month) = today.date
    /\ today.date < DaysInMonth(today.year, today.month)
    /\ \E classId \in ClassIds :
           getMonthlyStats(classId, today.month, today.year).totalAbsent > 0
    /\ \E classId \in ClassIds :
           getMonthlyStats(classId, today.month, today.year).totalOff > 0

(* ------------------------------- C8 ----------------------------------- *)

MonthIndex(year, month) == 12 * year + month

\* the last month of the sum: the month of min(today, semesterEnd)
RefLastIndex ==
    IF today.time < semesterEnd.time
    THEN MonthIndex(today.year, today.month)
    ELSE MonthIndex(semesterEnd.year, semesterEnd.month)

RECURSIVE RefSum(_, _, _)
RefSum(classId, index, last) ==
    IF index > last THEN <<0, 0, 0>>
    ELSE LET here == AsTriple(getMonthlyStats(classId, index % 12, index \div 12))
             rest == RefSum(classId, index + 1, last)
         IN  <<here[1] + rest[1], here[2] + rest[2], here[3] + rest[3]>>

\* C8: the cumulative statistics of every class are the component-wise sum of
\* its monthly statistics over the months from the semester start month
\* through the month of min(today, semesterEnd).
C8_CumulativeIsSumOfMonthly ==
    \A classId \in ClassIds :
        AsTriple(getStats(classId))
            = RefSum(classId, MonthIndex(semesterStart.year, semesterStart.month), RefLastIndex)

\* today is past the end of the semester and the sum has absences and off
\* days of months before the last
C8_Witness ==
    /\ today.time > semesterEnd.time
    /\ \E classId \in ClassIds :
           /\ getStats(classId).totalAbsent > 0
           /\ getMonthlyStats(classId, semesterEnd.month, semesterEnd.year).totalAbsent = 0
    /\ \E classId \in ClassIds : getStats(classId).totalOff > 0

(* ------------------------------- C9 ----------------------------------- *)

\* what C9 says of day, a day in both lists of the class and the month
HolidayAndOffOnly(classId, ym, day) ==
    LET monthly == MonthlyNow(classId, ym)
        cumulative == CumulativeNow(classId)
        triple == <<ym[1], ym[2], day>>
    IN  /\ CellOf(classId, NewDate(ym[1], ym[2], day)).state = "Holiday"
        /\ day \in monthly.off /\ day \notin monthly.conducted /\ day \notin monthly.absent
        /\ triple \in cumulative.off
        /\ triple \notin cumulative.conducted /\ triple \notin cumulative.absent

\* C9 as stated: a day in both lists is classified Holiday, is counted in off
\* and in neither conducted nor absent, monthly and cumulative.
C9_BothListsIsHoliday ==
    \A classId \in ClassIds, ym \in StatMonths :
        \A day \in InBothLists(classId, ym[1], ym[2]) :
            HolidayAndOffOnly(classId, ym, day)

\* C9 amended: the same of a day in both lists that is a weekday within the
\* semester window and not after today.
C9_BothListsOnClassDayIsHoliday ==
    \A classId \in ClassIds, ym \in StatMonths :
        \A day \in InBothLists(classId, ym[1], ym[2]) :
            LET date == NewDate(ym[1], ym[2], day)
            IN  (~OutsideWindow(date) /\ ~AfterToday(date) /\ ~SaturdayOrSunday(date))
                    => HolidayAndOffOnly(classId, ym, day)

\* a weekday of the window, not after today, is in both lists
C9_Witness ==
    \E classId \in ClassIds, ym \in StatMonths :
        \E day \in InBothLists(classId, ym[1], ym[2]) :
            LET date == NewDate(ym[1], ym[2], day)
            IN  ~OutsideWindow(date) /\ ~AfterToday(date) /\ ~SaturdayOrSunday(date)

(* ------------------------------- C10 ---------------------------------- *)

\* the Saturdays and Sundays of the window among the examined dates
WindowWeekends == {date \in StatDates : SaturdayOrSunday(date) /\ ~OutsideWindow(date)}

\* those whose membership is changed: the ends of the semester and the toggled dates
WeekendProbes == WindowWeekends \cap ({semesterStart, semesterEnd} \cup ToggleDates)

\* the statistics of a class, monthly for a month and cumulative, from given stores
BothStats(att, off, classId, year, month) ==
    <<getMonthlyStatsIn(att, off, today, classId, month, year),
      getStatsIn(att, off, today, classId)>>

\* C10: a Saturday or Sunday within the semester window and not after today is
\* classified Weekend, and putting it into or taking it out of the absence
\* list or the off-day list changes nothing in the monthly and the cumulative
\* statistics.
C10_WeekendNeverCounts ==
    \A classId \in ClassIds :
        /\ \A date \in WindowWeekends :
               ~AfterToday(date) => CellOf(classId, date).state = "Weekend"
        /\ \A date \in WeekendProbes :
               LET key == monthKey(date.year, date.month)
                   att == ToggleStore(attendanceData, classId, key, date.date)
                   off == ToggleStore(offDaysData, classId, key, date.date)
                   now == BothStats(attendanceData, offDaysData, classId, date.year, date.month)
               IN  ~AfterToday(date) =>
                       /\ BothStats(att, offDaysData, classId, date.year, date.month) = now
                       /\ BothStats(attendanceData, off, classId, date.year, date.month) = now

\* a Saturday of the window, not after today, is in the absence list and in
\* the off-day list of a class
C10_Witness ==
    \E classId \in ClassIds, date \in WeekendProbes :
        /\ ~AfterToday(date)
        /\ date.date \in InBothLists(classId, date.year, date.month)

(* ------------------------------- C11 ---------------------------------- *)

\* the month of a "YYYY-MM" key
KeyYear(key) == key[1]

KeyMonth(key) == 10 * key[2] + key[3] - 1

\* the dates a store holds for a class
MarkedDates(store, classId) ==
    IF classId \notin DOMAIN store THEN {}
    ELSE UNION {{NewDate(KeyYear(key), KeyMonth(key), store[classId][key][i]) :
                    i \in DOMAIN store[classId][key]} : key \in DOMAIN store[classId]}

ClassDayUpToToday(date) ==
    ~SaturdayOrSunday(date) /\ ~OutsideWindow(date) /\ ~AfterToday(date)

\* C11: in a page visit that starts from empty stores, every date in the
\* absence list or the off-day list of a class is a weekday within the
\* semester window and not after today, and so is every day whose cell carries
\* the toggle handler.
C11_OnlyClassDaysAreToggled ==
    \A classId \in ClassIds :
        /\ \A date \in MarkedDates(attendanceData, classId) \cup MarkedDates(offDaysData, classId) :
               ClassDayUpToToday(date)
        /\ dom[classId].markup # NoMarkup =>
               LET shown == dom[classId].markup[1]
               IN  \A day \in shown.handlers :
                       ClassDayUpToToday(NewDate(shown.year, shown.month, day))

\* the calendar of a class shows a month with a marked day, and the clicked
\* dates of that month have a Saturday or Sunday of the window and a date
\* outside the window or after today, all without a handler
C11_Witness ==
    \E classId \in ClassIds :
        /\ dom[classId].markup # NoMarkup
        /\ LET shown == dom[classId].markup[1]
               clicked == {date \in ClickDates :
                              date.year = shown.year /\ date.month = shown.month}
           IN  /\ \E date \in clicked \cap MarkedDates(attendanceData, classId) :
                      date.date \in shown.handlers
               /\ \E date \in clicked :
                      /\ SaturdayOrSunday(date) /\ ~OutsideWindow(date)
                      /\ date.date \notin shown.handlers
               /\ \E date \in clicked :
                      /\ OutsideWindow(date) \/ AfterToday(date)
                      /\ date.date \notin shown.handlers

(* ------------------------------- C12 ---------------------------------- *)

\* the counts the arithmetic is examined at: 0 .. MaxCount
MaxCount == 85

\* q is floor(n / 4)
IsFloorOfQuarter(q, n) == 4 * q <= n /\ n < 4 * q + 4

\* m is max(0, x)
IsMaxWithZero(m, x) == m >= 0 /\ m >= x /\ m \in {0, x}

LeavesAreRight(stats) ==
    /\ IsFloorOfQuarter(stats.totalPossibleLeaves, stats.totalConducted)
    /\ IsMaxWithZero(stats.possibleLeaves, stats.totalPossibleLeaves - stats.totalAbsent)

LeavesAreRightForAllCounts ==
    \A conducted \in 0 .. MaxCount, absent \in 0 .. MaxCount :
        LET leaves == Leaves(conducted, absent)
        IN  LeavesAreRight([totalConducted |-> conducted, totalAbsent |-> absent,
                            totalPossibleLeaves |-> leaves.totalPossibleLeaves,
                            possibleLeaves |-> leaves.possibleLeaves])

\* C12: totalPossibleLeaves is floor(totalConducted / 4) and possibleLeaves is
\* max(0, totalPossibleLeaves - totalAbsent), never negative: for all counts
\* from 0 to MaxCount, and in the cumulative statistics of every class.
C12_LeavesAreFloorAndMax ==
    /\ LeavesAreRightForAllCounts
    /\ \A classId \in ClassIds : LeavesAreRight(getStats(classId))

\* a class has more absences than possible leaves: the difference is negative
C12_Witness ==
    \E classId \in ClassIds :
        LET stats == getStats(classId)
        IN  /\ stats.totalConducted > 0
            /\ stats.totalPossibleLeaves - stats.totalAbsent < 0
            /\ stats.possibleLeaves = 0

(* ------------------------------- C13 ---------------------------------- *)

\* p is 0 when nothing was conducted, and otherwise an integer nearest to
\* 100 * (conducted - absent) / conducted: at most one half away from it
IsDisplayedPercent(p, conducted, absent) ==
    IF conducted = 0 THEN p = 0
    ELSE LET twice == 2 * (conducted * p - 100 * (conducted - absent))
         IN  twice <= conducted /\ -twice <= conducted

PercentIsRoundedForAllCounts ==
    \A conducted \in 0 .. MaxCount :
        \A absent \in 0 .. conducted :
            IsDisplayedPercent(Percent(conducted, absent), conducted, absent)

DifferingEntries(before, after) ==
    {e \in Entries(before) \cup Entries(after) :
        \/ e \notin Entries(before)
        \/ e \notin Entries(after)
        \/ before[e[1]][e[2]] # after[e[1]][e[2]]}

\* at most one day list of the store is touched, no class entry is removed,
\* and a class entry that is new is the one of the touched list
OneListTouched(before, after) ==
    LET differing == DifferingEntries(before, after)
    IN  /\ Cardinality(differing) <= 1
        /\ DOMAIN before \subseteq DOMAIN after
        /\ \A c \in DOMAIN after \ DOMAIN before : \E e \in differing : e[1] = c

\* C14: a toggle that edits the absence store leaves the off-day store
\* unchanged, and conversely; and it leaves every list of another class or of
\* another month of the edited store unchanged.
C14_ToggleTouchesOneList ==
    [][ /\ attendanceData' # attendanceData => offDaysData' = offDaysData
        /\ offDaysData' # offDaysData => attendanceData' = attendanceData
        /\ OneListTouched(attendanceData, attendanceData')
        /\ OneListTouched(offDaysData, offDaysData') ]_vars

\* a store holds marked days of a class in two months: the later toggle left
\* the list of the other month alone
C14_Witness ==
    \/ \E classId \in DOMAIN attendanceData :
           Cardinality({k \in DOMAIN attendanceData[classId] :
                           attendanceData[classId][k] # <<>>}) = 2
    \/ \E classId \in DOMAIN offDaysData :
           Cardinality({k \in DOMAIN offDaysData[classId] :
                           offDaysData[classId][k] # <<>>}) = 2

(* ------------------------------- C15 ---------------------------------- *)

StrictlyAscending(arr) == \A i \in 1 .. Len(arr) - 1 : arr[i] < arr[i + 1]

Elements(arr) == {arr[i] : i \in DOMAIN arr}

\* the list is sorted without duplicates, and so is the list after a toggle of
\* any day, which holds the same days but for the toggled one
SortedAndToggledSorted(arr) ==
    /\ StrictlyAscending(arr)
    /\ \A d \in ListDates :
           LET after == ToggleArray(arr, d.date)
           IN  /\ StrictlyAscending(after)
               /\ Elements(after) = IF d.date \in Elements(arr)
                                    THEN Elements(arr) \ {d.date}
                                    ELSE Elements(arr) \cup {d.date}

\* C15: from stores whose day lists are sorted and duplicate-free, after any
\* sequence of toggles every day list of every class and month is strictly
\* ascending, and a toggle removes the day if it is in the list and otherwise
\* adds it at its sorted position.
C15_ListsStaySorted ==
    /\ \A e \in Entries(attendanceData) : SortedAndToggledSorted(attendanceData[e[1]][e[2]])
    /\ \A e \in Entries(offDaysData) : SortedAndToggledSorted(offDaysData[e[1]][e[2]])

\* the absences of cs301 in July are the 28th and the 30th, neither of which
\* is in a list the toggles start from
C15_Witness ==
    DaysOf(attendanceData, "cs301", monthKey(2025, 6)) = <<28, 30>>

(* ------------------------------- C16 ---------------------------------- *)

\* the years whose months are examined
TableYears == 2024 .. 2026

\* some day of the month lies within the semester window
OverlapsWindow(year, month) ==
    \E day \in 1 .. DaysInMonth(year, month) : ~OutsideWindow(NewDate(year, month, day))

AllowedIsOverlapForAllMonths ==
    \A year \in TableYears, month \in 0 .. 11 :
        /\ isMonthAllowed(year, month) <=> OverlapsWindow(year, month)
        /\ isMonthAllowed(year, month) <=> (year = 2025 /\ month \in 6 .. 10)

\* C16: isMonthAllowed(year, month) is true exactly when a day of the month
\* lies within the semester window, that is for the months 6 .. 10 of 2025 and
\* for no other month of 2024 .. 2026; it is false for (2025, 11) and true for
\* (2025, 7); and the month an arrow of a displayed calendar leads to is
\* allowed exactly when it overlaps the window.
C16_AllowedIffOverlap ==
    /\ AllowedIsOverlapForAllMonths
    /\ ~isMonthAllowed(2025, 11)
    /\ isMonthAllowed(2025, 7)
    /\ \A classId \in DOMAIN classState, delta \in {-1, 1} :
           LET to == NormalizedMonth(classState[classId].month + delta, classState[classId].year)
           IN  isMonthAllowed(to.year, to.month) <=> OverlapsWindow(to.year, to.month)

\* the calendar of a class displays November 2025 and the displayed month of
\* another is July 2025: an arrow of each leads to a month without overlap
C16_Witness ==
    \E c1 \in DOMAIN classState, c2 \in DOMAIN classState :
        /\ classState[c1] = [year |-> 2025, month |-> 10]
        /\ classState[c2] = [year |-> 2025, month |-> 6]
        /\ dom[c1].markup # NoMarkup
        /\ dom[c1].markup[1].month = 10

(* ------------------------------- C17 ---------------------------------- *)

\* a is a calendar day before b
EarlierDay(a, b) ==
    \/ a.year < b.year
    \/ a.year = b.year /\ a.month < b.month
    \/ a.year = b.year /\ a.month = b.month /\ a.date < b.date

MonthOf(date) == [year |-> date.year, month |-> date.month]

ClampIsRight(date, result) ==
    /\ EarlierDay(date, semesterStart) => result = MonthOf(semesterStart)
    /\ EarlierDay(semesterEnd, date) => result = MonthOf(semesterEnd)
    /\ (~EarlierDay(date, semesterStart) /\ ~EarlierDay(semesterEnd, date))
           => result = MonthOf(date)

ClampIsRightForAllDates ==
    \A date \in StatDates : ClampIsRight(date, clampToSemesterMonth(date))

\* C17: clampToSemesterMonth(date) is the (year, month) of the semester start
\* for a date before it, that of the semester end for a date after it, and the
\* date's own otherwise: for every examined date, and for today whenever the
\* displayed month of a class is initialised.
C17_ClampedToSemesterMonth ==
    [][ /\ ClampIsRightForAllDates
        /\ \A classId \in ClassIds :
               (classId \notin DOMAIN classState /\ classId \in DOMAIN classState')
                   => ClampIsRight(today, classState'[classId]) ]_vars

\* today is after the semester end and the displayed month of a class is the
\* month of the semester end, which is not the month of today
C17_Witness ==
    /\ EarlierDay(semesterEnd, today)
    /\ MonthOf(today) # MonthOf(semesterEnd)
    /\ \E classId \in DOMAIN classState : classState[classId] = MonthOf(semesterEnd)

(* ------------------------------- C18 ---------------------------------- *)

\* the class identifiers the statistics are asked for: the classes and one
\* that no store knows
StatClassIds == ClassIds \cup {"cs999"}

\* the store with an empty mapping for the class where it has no entry
WithEntry(store, classId) ==
    [c \in DOMAIN store \cup {classId} |-> IF c \in DOMAIN store THEN store[c] ELSE EmptyObject]

\* C18: for a class identifier without an entry in the absence store or in
\* the off-day store, the monthly and the cumulative statistics are those of
\* the stores in which the class has an empty mapping instead, with absent = 0
\* when the absence entry is missing and off = 0 when the off-day entry is.
C18_MissingClassIsEmpty ==
    \A classId \in StatClassIds :
        (classId \notin DOMAIN attendanceData \/ classId \notin DOMAIN offDaysData) =>
            LET att == WithEntry(attendanceData, classId)
                off == WithEntry(offDaysData, classId)
                cumulative == getStats(classId)
            IN  /\ cumulative = getStatsIn(att, off, today, classId)
                /\ classId \notin DOMAIN attendanceData => cumulative.totalAbsent = 0
                /\ classId \notin DOMAIN offDaysData => cumulative.totalOff = 0
                /\ \A ym \in StatMonths :
                       isMonthAllowed(ym[1], ym[2]) =>
                           LET monthly == getMonthlyStats(classId, ym[2], ym[1])
                           IN  /\ monthly = getMonthlyStatsIn(att, off, today,
                                                              classId, ym[2], ym[1])
                               /\ classId \notin DOMAIN attendanceData
                                      => monthly.totalAbsent = 0
                               /\ classId \notin DOMAIN offDaysData => monthly.totalOff = 0

\* cs301 has an absence that counts and no entry in the off-day store, and
\* cs302 has an off day that counts and no entry in the absence store
C18_Witness ==
    /\ "cs301" \notin DOMAIN offDaysData
    /\ getStats("cs301").totalAbsent > 0
    /\ "cs302" \notin DOMAIN attendanceData
    /\ getStats("cs302").totalOff > 0

(* ------------------------------- C19 ---------------------------------- *)

NoMarkedDay(session) == Marks(session.attendanceData) = 0 /\ Marks(session.offDaysData) = 0

\* C19: whenever the load of a session fails (the request throws, the response
\* is not OK, the body is not valid JSON, or the payload does not report
\* success), the absence store and the off-day store of the session hold no
\* marked day when loadAttendanceData has returned.
C19_FailedLoadLeavesNoMark ==
    [][\A s \in SessionIds :
           (sessions[s].load = "pending" /\ sessions'[s].load = "failed")
               => NoMarkedDay(sessions'[s])]_vars

(* ------------------------------- C20 ---------------------------------- *)

\* C20, the saving: the request a toggle sends holds the whole of both stores
\* of its session as they are after the edit, and the persisted document only
\* changes by becoming the body of one such request.
C20_SavesReplaceTheWholeDocument ==
    [][ /\ \A s \in SessionIds :
               sessions'[s].toggles # sessions[s].toggles =>
                   \E m \in network' \ network :
                       /\ m.type = "POST" /\ m.session = s
                       /\ m.body.attendanceData = sessions'[s].attendanceData
                       /\ m.body.offDaysData = sessions'[s].offDaysData
        /\ document' # document =>
               \E m \in network \ network' : m.type = "POST" /\ document' = m.body ]_vars

\* C20, the lost update: both sessions have loaded the document and toggled a
\* day of cs301, both saves were answered OK and no request is in flight, and
\* a day that a session holds as absent is not in the persisted document
C20_Witness ==
    /\ \A s \in SessionIds :
           /\ sessions[s].load = "loaded"
           /\ \E m \in network : m.type = "saveResponse" /\ m.session = s /\ m.ok
    /\ \A m \in network : m.type = "saveResponse"
    /\ \E s \in SessionIds, date \in SessionDates :
           LET key == monthKey(date.year, date.month)
           IN  /\ Includes(DaysOf(sessions[s].attendanceData, "cs301", key), date.date)
               /\ ~Includes(DaysOf(document.attendanceData, "cs301", key), date.date)

(* ------------------------------- C21 ---------------------------------- *)

\* every class of the store before is in the store after, with every month key
\* it had
KeepsClassesAndMonths(before, after) ==
    /\ DOMAIN before \subseteq DOMAIN after
    /\ \A c \in DOMAIN before : DOMAIN before[c] \subseteq DOMAIN after[c]

\* C21: under any sequence of toggles the classes present in each store and the
\* month keys present under each class never shrink; un-marking a day leaves
\* its class and its month in the store, with a day list that may be empty.
C21_StoresOnlyGrow ==
    [][ /\ KeepsClassesAndMonths(attendanceData, attendanceData')
        /\ KeepsClassesAndMonths(offDaysData, offDaysData') ]_vars

\* a day was marked and un-marked: its month is in the store with an empty list
C21_Witness ==
    \E c \in DOMAIN attendanceData :
        /\ monthKey(2025, 6) \in DOMAIN attendanceData[c]
        /\ attendanceData[c][monthKey(2025, 6)] = <<>>

(* ------------------------------- C22 ---------------------------------- *)

\* the handler of the layer that matches everything: 404, sent as a redirect
FallbackHandlers == {"notFound", "finalhandler"}

\* C22: the load and the save of the page, GET and POST /api/attendance, are
\* answered by an attendance handler of the server and never by the fallback
\* handler that redirects to /login.
C22_AttendanceRequestsReachAHandler ==
    \A i \in DOMAIN served :
        served[i].path = "/api/attendance"
            => /\ served[i].handler \notin FallbackHandlers
               /\ served[i].location # "/login"

(* ------------------------------- C23 ---------------------------------- *)

DashboardPaths == {"/", "/att.html"}

\* C23: a GET of / or of /att.html from a session that is not logged in is
\* answered with a redirect to /login and never with the dashboard page,
\* whatever routes are registered after the protected ones.
C23_DashboardNeedsLogin ==
    \A i \in DOMAIN served :
        /\ served[i].method = "GET"
        /\ served[i].path \in DashboardPaths
        /\ ~served[i].authenticated
        => /\ served[i].status = 302
           /\ served[i].location = "/login"
           /\ served[i].body # "att.html"

\* GET / was sent without a login and redirected, and the browser is at /login
C23_Witness ==
    /\ Len(served) = 2
    /\ served[1].method = "GET" /\ served[1].path = "/"
    /\ ~served[1].authenticated
    /\ served[1].handler = "isAuthenticated"
    /\ served[2].path = "/login" /\ served[2].body = "login.html"

(* ------------------------------- C24 ---------------------------------- *)

\* C24: after any sequence of card openings and month navigations the month
\* displayed for every class is an allowed month: the first one is
\* clampToSemesterMonth(today), and a navigation to a month without semester
\* overlap leaves the displayed month as it is.
C24_DisplayedMonthIsAllowed ==
    /\ \A c \in DOMAIN classState :
           isMonthAllowed(classState[c].year, classState[c].month)
    /\ \A c \in ClassIds :
           dom[c].markup # NoMarkup =>
               isMonthAllowed(dom[c].markup[1].year, dom[c].markup[1].month)

\* on July 10 the calendar of cs301 was opened at July 2025, the first allowed
\* month, and navigated to November 2025, the last one; December is not allowed
C24_Witness ==
    /\ today = NewDate(2025, 6, 10)
    /\ ~isMonthAllowed(2025, 11)
    /\ ~isMonthAllowed(2025, 5)
    /\ dom["cs301"].markup # NoMarkup
    /\ dom["cs301"].markup[1].year = 2025 /\ dom["cs301"].markup[1].month = 10
    /\ classState["cs301"] = [month |-> 10, year |-> 2025]

(* ------------------------------- C25 ---------------------------------- *)

\* the two stores hold the same marked dates for every class
SameMarks(a, b) ==
    \A c \in ClassIds :
        /\ MarkedDates(a.attendanceData, c) = MarkedDates(b.attendanceData, c)
        /\ MarkedDates(a.offDaysData, c) = MarkedDates(b.offDaysData, c)

\* session s is the only one that has sent a request or toggled a day; its load
\* has returned with success and each of its saves was answered OK, the answers
\* being all that is left in flight
OnlySessionSettled(s) ==
    /\ \A o \in SessionIds \ {s} : sessions[o] = NewSession
    /\ sessions[s].load = "loaded"
    /\ \A m \in network : m.type = "saveResponse" /\ m.session = s /\ m.ok
    /\ Cardinality(network) = sessions[s].toggles

\* C25: with a single edit session, once every load and save has completed with
\* success, the persisted document holds the marks of the in-memory stores,
\* whatever the interleaving of the toggles with the completion of the requests.
C25_SingleSessionDocumentIsTheStores ==
    \A s \in SessionIds :
        OnlySessionSettled(s) => SameMarks(document, sessions[s])

(* ------------------------------- C26 ---------------------------------- *)

\* the cell of a date after the step
CellOfNext(classId, date) ==
    CellState(DaysOf(attendanceData', classId, monthKey(date.year, date.month)),
              DaysOf(offDaysData', classId, monthKey(date.year, date.month)),
              today', date.year, date.month, date.date)

\* C26: no action of the user on the calendar changes the off-day store; the
\* handler of every clickable cell, a Holiday cell included, toggles an
\* absence, so the off days stay as they were loaded and a Holiday cell is a
\* Holiday cell after any number of clicks.
C26_ClicksLeaveTheOffDays ==
    [][ loaded' = loaded =>
            /\ offDaysData' = offDaysData
            /\ \A c \in ClassIds, date \in ClickDates :
                   CellOf(c, date).state = "Holiday" =>
                       CellOfNext(c, date).state = "Holiday" ]_vars

\* the Holiday cell of July 28 was clicked: the day is an absence as well, the
\* off days are the loaded ones and the cell is a Holiday cell
C26_Witness ==
    /\ loaded
    /\ DaysOf(offDaysData, "cs301", monthKey(2025, 6)) = <<28>>
    /\ Includes(DaysOf(attendanceData, "cs301", monthKey(2025, 6)), 28)
    /\ CellOf("cs301", NewDate(2025, 6, 28)) = [state |-> "Holiday", clickable |-> TRUE]

(* ------------------------------- C27 ---------------------------------- *)

\* the step is the return of a save that failed, in session m.session
FailedSaveReturns(m) ==
    /\ m.type = "saveResponse" /\ ~m.ok
    /\ m \in network /\ m \notin network'

\* C27: when the save of a toggle fails, the toggle stays in the in-memory
\* stores (no rollback), no other save is sent (no retry), and the calendar
\* and the card statistics are written from the in-memory stores all the same;
\* what is displayed can then differ from what is persisted.
C27_FailedSaveKeepsTheToggle ==
    [][ \A m \in network :
            FailedSaveReturns(m) =>
                LET before == sessions[m.session]
                    after == sessions'[m.session]
                IN  /\ after.attendanceData = before.attendanceData
                    /\ after.offDaysData = before.offDaysData
                    /\ after.displayed =
                           saveRequestBody(before.attendanceData, before.offDaysData)
                    /\ network' = network \ {m}
                    /\ document' = document ]_vars

\* one session only has toggled a day; its save failed and has returned; the
\* day is displayed as absent and is not in the persisted document
C27_Witness ==
    /\ sessions["s2"] = NewSession
    /\ sessions["s1"].toggles = 1
    /\ network = {}
    /\ \E date \in SessionDates :
           /\ date \in MarkedDates(sessions["s1"].attendanceData, "cs301")
           /\ date \in MarkedDates(sessions["s1"].displayed.attendanceData, "cs301")
           /\ date \notin MarkedDates(document.attendanceData, "cs301")

(* ------------------------------- C28 ---------------------------------- *)

\* the step is logout() of the page, answered with 'Logout successful'
LogoutCompletes ==
    /\ Len(served') = 2
    /\ served'[1].method = "POST" /\ served'[1].path = "/api/logout"
    /\ served'[1].body = "Logout successful"
    /\ served'[2].method = "GET" /\ served'[2].path = "/login"

\* C28: once logout() of the page has completed, the session is not logged in
\* any more: a GET of / or of /att.html that follows is redirected to /login.
C28_LogoutEndsTheSession ==
    [][ LogoutCompletes =>
            \A path \in DashboardPaths :
                LET next == Exchange("GET", path, authenticated')
                IN  next.status = 302 /\ next.location = "/login" ]_vars

(* ------------------------------- C29 ---------------------------------- *)

\* the refusals of a form whose fields are not well formed
FormRefusals ==
    { "All fields are required", "Passwords do not match",
      "Password must be at least 6 characters long" }

\* the calls of the registration handler that send their response in this step
AnsweredNow ==
    {r \in DOMAIN registrations' :
        /\ registrations'[r].pc = "answered"
        /\ r \in DOMAIN registrations => registrations[r].pc # "answered"}

\* C29: under every interleaving of registrations there is at most one account
\* for a lower-cased address, and a registration with a well-formed form for an
\* address that has an account already is answered with 400 'User already
\* exists with this email' and creates no account.
C29_OneAccountAndDuplicatesRefused ==
    [][ /\ \A i, j \in DOMAIN users' : users'[i].email = users'[j].email => i = j
        /\ \A r \in AnsweredNow :
               /\ registrations'[r].body \notin FormRefusals
               /\ FindOne(users, ToLowerCase(registrations'[r].email)) # {}
               => /\ registrations'[r].status = 400
                  /\ registrations'[r].body = "User already exists with this email"
                  /\ users' = users ]_vars

(* ------------------------------- C30 ---------------------------------- *)

\* 0 <= absent <= conducted, and the percentage written for these totals is an
\* integer from 0 to 100
CountsInOrder(stats) ==
    /\ 0 <= stats.totalAbsent
    /\ stats.totalAbsent <= stats.totalConducted
    /\ Percent(stats.totalConducted, stats.totalAbsent) \in 0 .. 100

\* the percentage of every pair of totals with 0 <= absent <= conducted
PercentInRangeForAllCounts ==
    \A conducted \in 0 .. MaxCount : \A absent \in 0 .. conducted :
        Percent(conducted, absent) \in 0 .. 100

\* C30: for every store content and every value of today, 0 <= absent <=
\* conducted in the monthly and in the cumulative statistics, so the displayed
\* percentage is an integer from 0 to 100.
C30_AbsentWithinConducted ==
    /\ PercentInRangeForAllCounts
    /\ \A c \in ClassIds :
           /\ CountsInOrder(getStats(c))
           /\ \A ym \in StatMonths : CountsInOrder(getMonthlyStats(c, ym[2], ym[1]))

\* on July 28, 2025 the one conducted day of cs301 is an absence: absent and
\* conducted are both 1 in July and in the semester, and the percentage is 0
C30_Witness ==
    /\ today = NewDate(2025, 6, 28)
    /\ getMonthlyStats("cs301", 6, 2025).totalConducted = 1
    /\ getMonthlyStats("cs301", 6, 2025).totalAbsent = 1
    /\ getStats("cs301").totalAbsent = 1
    /\ cardPercent("cs301") = 0
    /\ cardPercent("cs302") = 100

====
